---------------------------- MODULE Spec2Model ----------------------------
(***************************************************************************)
(* A model of the ring buffer of axelriet/InterviewBasics                  *)
(* (src/RingBuffer/RingBuffer.cpp).  The file holds four variants of the   *)
(* same C-ish program; the operators below follow the last variant (lines  *)
(* 900-1289), the operators prefixed V1_ follow the first one (lines       *)
(* 1-326).                                                                 *)
(*                                                                         *)
(* A RINGBUFFER struct is a record; the block it points to is the function *)
(* storage, indexed by byte offset from 0.  Caller arrays (the Data        *)
(* argument of a write, the Result array of a read) are sequences: the C   *)
(* element at offset i is element i + 1 of the sequence.                   *)
(***************************************************************************)
EXTENDS Integers, Sequences, FiniteSets, TLC

\* ------------------------------------------------------------------ bounds
\* Largest capacity handed to InitializeRingBuffer.
MaxCapacity == 2
\* Largest Size handed to WriteRingBuffer / ReadRingBuffer, and the length of
\* the caller's Result array.
MaxSize == 2
\* The calls stop once WriteIndex would pass this value.
MaxCursor == 3
\* Bytes take the values 0..MaxByte.
MaxByte == 1
\* Width of SIZE_T in the model; the cursors stay far below 2^SizeBits.
SizeBits == 16
\* the largest Capacity a max-heap is declared with, and the largest key
HeapCapacity == 4
MaxKey == 2
\* the largest key of a binary search tree
MaxTreeKey == 3
\* the largest capacity of a buffer whose cursors pass 2^SizeBits - 1: the
\* first capacity that does not divide 2^SizeBits
WrapCapacity == 3
\* the vertices of a graph are 1..MaxVertex; it is given at most MaxEdges edges
MaxVertex == 3
MaxEdges == 3

\* --------------------------------------------------------------- data types
BYTE == 0..MaxByte

SIZE_MODULUS == 2^SizeBits

\* Unsigned arithmetic of SIZE_T: every result is reduced modulo 2^SizeBits.
SIZE_T(x) == x % SIZE_MODULUS

NULL == 0
\* The address malloc returns for the one block the program ever holds.
BLOCK == 1

\* memset(RingBuffer, 0, sizeof(RINGBUFFER))
ZeroedRingBuffer ==
    [Buffer |-> NULL, Capacity |-> 0, ReadIndex |-> 0, WriteIndex |-> 0]

\* A declared, not yet initialized RINGBUFFER: its fields hold anything.
GarbageRingBuffer ==
    [Buffer : {NULL, BLOCK}, Capacity : {0, MaxCapacity},
     ReadIndex : {0, 1}, WriteIndex : {0, 1}]

\* No block: the function with the empty domain.
NoStorage == [i \in {} |-> 0]

\* BYTE Result[15]{}
ZeroedResult == [i \in 1..MaxSize |-> 0]

\* std::min
Min(a, b) == IF a <= b THEN a ELSE b

\* ------------------------------------------------------------------ memcpy
\* memcpy(Buffer + at, Data + from, n): the block after the copy.  Offsets
\* outside the block are not part of it.
MemcpyToBuffer(mem, at, Data, from, n) ==
    [i \in DOMAIN mem |->
        IF at <= i /\ i < at + n /\ (from + (i - at) + 1) \in DOMAIN Data
        THEN Data[from + (i - at) + 1]
        ELSE mem[i]]

\* memcpy(Data + at, Buffer + from, n): the caller's array after the copy.
MemcpyFromBuffer(Data, at, mem, from, n) ==
    [j \in DOMAIN Data |->
        IF at < j /\ j <= at + n /\ (from + (j - 1 - at)) \in DOMAIN mem
        THEN mem[from + (j - 1 - at)]
        ELSE Data[j]]

\* The storage offsets a list of copies touches.
Touched(segs) ==
    UNION { segs[k].at .. (segs[k].at + segs[k].len - 1) : k \in DOMAIN segs }

\* "none", or the undefined behaviour a call ran into: "oob" when a copy
\* touches an offset outside the block.
Access(mem, segs) ==
    IF Touched(segs) \subseteq DOMAIN mem THEN "none" ELSE "oob"

\* What a call hands back: the struct, the block and the caller's array after
\* it, the value returned, the copies made and the undefined behaviour met.
Outcome(rb, mem, out, ret, segs, fault) ==
    [rb |-> rb, mem |-> mem, out |-> out, ret |-> ret, copies |-> segs,
     fault |-> fault]

\* cursor % Capacity; with Capacity = 0 the division is undefined and the
\* caller of this operator records it.
Clamp(cursor, Capacity) == IF Capacity = 0 THEN 0 ELSE cursor % Capacity

\* ------------------------------------------- the last variant (lines 900-1289)
\* memset(RingBuffer, 0, sizeof(RINGBUFFER)): whatever the struct held.
Memset0(rb) == [f \in DOMAIN rb |-> 0]

\* The allocator: the blocks malloc has handed out and free has not taken
\* back, and how many times each of the two has done so since the last
\* InitializeRingBuffer began.
NoBlocks == [live |-> {}, allocs |-> 0, frees |-> 0]

\* malloc(Capacity) that returns BLOCK.
Malloc(al) == [al EXCEPT !.live = @ \cup {BLOCK}, !.allocs = @ + 1]

\* free(ptr): nothing for nullptr, the block is taken back when malloc gave
\* it, and undefined behaviour ("badfree") for any other pointer.
Free(al, ptr) ==
    IF ptr = NULL
    THEN [alloc |-> al, fault |-> "none"]
    ELSE IF ptr \in al.live
    THEN [alloc |-> [al EXCEPT !.live = @ \ {ptr}, !.frees = @ + 1],
          fault |-> "none"]
    ELSE [alloc |-> al, fault |-> "badfree"]

\* A variant of InitializeRingBuffer without the memset.
InitializeRingBuffer_NoMemset(rb, Capacity, allocated) ==
    IF Capacity > 0
    THEN IF ~allocated
         THEN [rb |-> [rb EXCEPT !.Buffer = NULL], ret |-> 0]
         ELSE [rb |-> [rb EXCEPT !.Buffer = BLOCK, !.Capacity = Capacity],
               ret |-> Capacity]
    ELSE [rb |-> rb, ret |-> Capacity]

\* A variant of InitializeRingBuffer that sets Capacity before it looks at
\* what malloc returned.
InitializeRingBuffer_CapacityFirst(rb, Capacity, allocated) ==
    IF Capacity > 0
    THEN IF ~allocated
         THEN [rb |-> [Memset0(rb) EXCEPT !.Capacity = Capacity], ret |-> 0]
         ELSE [rb |-> [Memset0(rb) EXCEPT !.Buffer = BLOCK,
                                          !.Capacity = Capacity],
               ret |-> Capacity]
    ELSE [rb |-> Memset0(rb), ret |-> Capacity]

\* InitializeRingBuffer(RingBuffer, Capacity); allocated tells whether malloc
\* returned a block.  The struct it leaves and the value it returns.
InitializeRingBuffer(rb, Capacity, allocated) ==
    IF Capacity > 0
    THEN IF ~allocated
         THEN [rb |-> Memset0(rb), ret |-> 0]
         ELSE [rb |-> [Memset0(rb) EXCEPT !.Buffer = BLOCK,
                                          !.Capacity = Capacity],
               ret |-> Capacity]
    ELSE [rb |-> Memset0(rb), ret |-> Capacity]

\* A variant of DestroyRingBuffer that zeroes the struct before it frees
\* the pointer in it.
DestroyRingBuffer_MemsetFirst(rb, al) ==
    [rb |-> Memset0(rb), alloc |-> Free(al, Memset0(rb).Buffer).alloc,
     fault |-> Free(al, Memset0(rb).Buffer).fault]

\* DestroyRingBuffer: free(Buffer), then the struct is zeroed.
DestroyRingBuffer(rb, al) ==
    [rb |-> Memset0(rb), alloc |-> Free(al, rb.Buffer).alloc,
     fault |-> Free(al, rb.Buffer).fault]

\* A variant of CountRingBuffer that subtracts as on unbounded integers and
\* takes a negative difference for an empty buffer.
CountRingBuffer_Saturating(rb) ==
    IF rb.WriteIndex >= rb.ReadIndex THEN rb.WriteIndex - rb.ReadIndex ELSE 0

CountRingBuffer(rb) == SIZE_T(rb.WriteIndex - rb.ReadIndex)

FreeSpaceRingBuffer(rb) == SIZE_T(rb.Capacity - CountRingBuffer(rb))

\* A variant of IsEmptyRingBuffer that compares the positions in the storage
\* (the "write index == read index" test of a buffer with reduced indices).
IsEmptyRingBuffer_ByPosition(rb) ==
    Clamp(rb.ReadIndex, rb.Capacity) = Clamp(rb.WriteIndex, rb.Capacity)

IsEmptyRingBuffer(rb) == CountRingBuffer(rb) = 0

\* A variant of IsFullRingBuffer in which a buffer of no capacity is not full.
IsFullRingBuffer_NonZeroCapacity(rb) ==
    rb.Capacity # 0 /\ CountRingBuffer(rb) = rb.Capacity

\* A variant of IsFullRingBuffer that keeps one byte of the block unused.
IsFullRingBuffer_OneSlotKeptFree(rb) ==
    CountRingBuffer(rb) + 1 >= rb.Capacity

IsFullRingBuffer(rb) == CountRingBuffer(rb) = rb.Capacity

\* A variant of WriteByteRingBufferUnchecked that increments WriteIndex
\* before it is used as the offset (++WriteIndex for WriteIndex++).
WriteByteRingBufferUnchecked_PreIncrement(rb, mem, out, Data) ==
    LET Index == Clamp(SIZE_T(rb.WriteIndex + 1), rb.Capacity)
        segs  == << [at |-> Index, len |-> 1] >>
    IN  Outcome([rb EXCEPT !.WriteIndex = SIZE_T(@ + 1)],
                MemcpyToBuffer(mem, Index, << Data >>, 0, 1),
                out, 1, segs,
                IF rb.Capacity = 0 THEN "div0" ELSE Access(mem, segs))

WriteByteRingBufferUnchecked(rb, mem, out, Data) ==
    LET Index == Clamp(rb.WriteIndex, rb.Capacity)
        segs  == << [at |-> Index, len |-> 1] >>
    IN  Outcome([rb EXCEPT !.WriteIndex = SIZE_T(@ + 1)],
                MemcpyToBuffer(mem, Index, << Data >>, 0, 1),
                out, 1, segs,
                IF rb.Capacity = 0 THEN "div0" ELSE Access(mem, segs))

\* A variant of WriteByteRingBuffer without the test for a full buffer.
WriteByteRingBuffer_NoFullCheck(rb, mem, out, Data) ==
    WriteByteRingBufferUnchecked(rb, mem, out, Data)

WriteByteRingBuffer(rb, mem, out, Data) ==
    IF IsFullRingBuffer(rb)
    THEN Outcome(rb, mem, out, 0, << >>, "none")
    ELSE WriteByteRingBufferUnchecked(rb, mem, out, Data)

\* A variant of WriteRingBuffer that never splits the copy.
WriteRingBuffer_NoSplit(rb, mem, out, Data, Size) ==
    IF rb.Capacity = 0
    THEN Outcome(rb, mem, out, 0, << >>, "none")
    ELSE
    LET Index   == rb.WriteIndex % rb.Capacity
        ToWrite == Min(FreeSpaceRingBuffer(rb), Size)
        one     == << [at |-> Index, len |-> ToWrite] >>
    IN  IF ToWrite = 0
        THEN Outcome(rb, mem, out, 0, << >>, "none")
        ELSE Outcome([rb EXCEPT !.WriteIndex = SIZE_T(@ + ToWrite)],
                     MemcpyToBuffer(mem, Index, Data, 0, ToWrite),
                     out, ToWrite, one, Access(mem, one))

\* A variant of WriteRingBuffer that clamps the write to the capacity, not
\* to the free space: a full buffer overwrites its oldest bytes.
WriteRingBuffer_OverwritesOldest(rb, mem, out, Data, Size) ==
    IF rb.Capacity = 0
    THEN Outcome(rb, mem, out, 0, << >>, "none")
    ELSE
    LET Index   == rb.WriteIndex % rb.Capacity
        Slack   == SIZE_T(rb.Capacity - Index)
        ToWrite == Min(rb.Capacity, Size)
        one     == << [at |-> Index, len |-> ToWrite] >>
        two     == << [at |-> Index, len |-> Slack],
                      [at |-> 0, len |-> SIZE_T(ToWrite - Slack)] >>
        after   == [rb EXCEPT !.WriteIndex = SIZE_T(@ + ToWrite)]
    IN  IF ToWrite = 0
        THEN Outcome(rb, mem, out, 0, << >>, "none")
        ELSE IF ToWrite <= Slack
        THEN Outcome(after, MemcpyToBuffer(mem, Index, Data, 0, ToWrite),
                     out, ToWrite, one, Access(mem, one))
        ELSE Outcome(after,
                     MemcpyToBuffer(MemcpyToBuffer(mem, Index, Data, 0, Slack),
                                    0, Data, Slack, SIZE_T(ToWrite - Slack)),
                     out, ToWrite, two, Access(mem, two))

\* A variant of WriteRingBuffer that reports Size as written whatever was
\* copied.
WriteRingBuffer_ReturnsSize(rb, mem, out, Data, Size) ==
    IF rb.Capacity = 0
    THEN Outcome(rb, mem, out, 0, << >>, "none")
    ELSE
    LET Index   == rb.WriteIndex % rb.Capacity
        Slack   == SIZE_T(rb.Capacity - Index)
        ToWrite == Min(FreeSpaceRingBuffer(rb), Size)
        one     == << [at |-> Index, len |-> ToWrite] >>
        two     == << [at |-> Index, len |-> Slack],
                      [at |-> 0, len |-> SIZE_T(ToWrite - Slack)] >>
        after   == [rb EXCEPT !.WriteIndex = SIZE_T(@ + ToWrite)]
    IN  IF ToWrite = 0
        THEN Outcome(rb, mem, out, 0, << >>, "none")
        ELSE IF ToWrite <= Slack
        THEN Outcome(after, MemcpyToBuffer(mem, Index, Data, 0, ToWrite),
                     out, Size, one, Access(mem, one))
        ELSE Outcome(after,
                     MemcpyToBuffer(MemcpyToBuffer(mem, Index, Data, 0, Slack),
                                    0, Data, Slack, SIZE_T(ToWrite - Slack)),
                     out, Size, two, Access(mem, two))

\* A variant of WriteRingBuffer that accepts all of Data or none of it.
WriteRingBuffer_AllOrNothing(rb, mem, out, Data, Size) ==
    IF rb.Capacity = 0
    THEN Outcome(rb, mem, out, 0, << >>, "none")
    ELSE
    LET Index   == rb.WriteIndex % rb.Capacity
        Slack   == SIZE_T(rb.Capacity - Index)
        Space   == FreeSpaceRingBuffer(rb)
        ToWrite == IF Size <= Space THEN Size ELSE 0
        one     == << [at |-> Index, len |-> ToWrite] >>
        two     == << [at |-> Index, len |-> Slack],
                      [at |-> 0, len |-> SIZE_T(ToWrite - Slack)] >>
        after   == [rb EXCEPT !.WriteIndex = SIZE_T(@ + ToWrite)]
    IN  IF ToWrite = 0
        THEN Outcome(rb, mem, out, 0, << >>, "none")
        ELSE IF ToWrite <= Slack
        THEN Outcome(after, MemcpyToBuffer(mem, Index, Data, 0, ToWrite),
                     out, ToWrite, one, Access(mem, one))
        ELSE \* Split the write across the buffer boundary.
             Outcome(after,
                     MemcpyToBuffer(MemcpyToBuffer(mem, Index, Data, 0, Slack),
                                    0, Data, Slack, SIZE_T(ToWrite - Slack)),
                     out, ToWrite, two, Access(mem, two))

WriteRingBuffer(rb, mem, out, Data, Size) ==
    IF rb.Capacity = 0
    THEN Outcome(rb, mem, out, 0, << >>, "none")
    ELSE
    LET Index   == rb.WriteIndex % rb.Capacity
        Slack   == SIZE_T(rb.Capacity - Index)
        Space   == FreeSpaceRingBuffer(rb)
        ToWrite == Min(Space, Size)
        one     == << [at |-> Index, len |-> ToWrite] >>
        two     == << [at |-> Index, len |-> Slack],
                      [at |-> 0, len |-> SIZE_T(ToWrite - Slack)] >>
        after   == [rb EXCEPT !.WriteIndex = SIZE_T(@ + ToWrite)]
    IN  IF ToWrite = 0
        THEN Outcome(rb, mem, out, 0, << >>, "none")
        ELSE IF ToWrite <= Slack
        THEN Outcome(after, MemcpyToBuffer(mem, Index, Data, 0, ToWrite),
                     out, ToWrite, one, Access(mem, one))
        ELSE \* Split the write across the buffer boundary.
             Outcome(after,
                     MemcpyToBuffer(MemcpyToBuffer(mem, Index, Data, 0, Slack),
                                    0, Data, Slack, SIZE_T(ToWrite - Slack)),
                     out, ToWrite, two, Access(mem, two))

\* A variant of ReadByteRingBufferUnchecked that zeroes the byte it has read.
ReadByteRingBufferUnchecked_Scrubs(rb, mem, out) ==
    LET Index == Clamp(rb.ReadIndex, rb.Capacity)
        segs  == << [at |-> Index, len |-> 1] >>
    IN  Outcome([rb EXCEPT !.ReadIndex = SIZE_T(@ + 1)],
                [o \in DOMAIN mem |-> IF o = Index THEN 0 ELSE mem[o]],
                MemcpyFromBuffer(out, 0, mem, Index, 1),
                1, segs,
                IF rb.Capacity = 0 THEN "div0" ELSE Access(mem, segs))

ReadByteRingBufferUnchecked(rb, mem, out) ==
    LET Index == Clamp(rb.ReadIndex, rb.Capacity)
        segs  == << [at |-> Index, len |-> 1] >>
    IN  Outcome([rb EXCEPT !.ReadIndex = SIZE_T(@ + 1)],
                mem,
                MemcpyFromBuffer(out, 0, mem, Index, 1),
                1, segs,
                IF rb.Capacity = 0 THEN "div0" ELSE Access(mem, segs))

\* A variant of ReadByteRingBuffer without the test for an empty buffer.
ReadByteRingBuffer_NoEmptyCheck(rb, mem, out) ==
    ReadByteRingBufferUnchecked(rb, mem, out)

\* A variant of ReadByteRingBuffer that sets the caller's byte to 0 when the
\* buffer is empty.
ReadByteRingBuffer_ZeroesOnEmpty(rb, mem, out) ==
    IF IsEmptyRingBuffer(rb)
    THEN Outcome(rb, mem, [out EXCEPT ![1] = 0], 0, << >>, "none")
    ELSE ReadByteRingBufferUnchecked(rb, mem, out)

ReadByteRingBuffer(rb, mem, out) ==
    IF IsEmptyRingBuffer(rb)
    THEN Outcome(rb, mem, out, 0, << >>, "none")
    ELSE ReadByteRingBufferUnchecked(rb, mem, out)

\* A variant of ReadRingBuffer that takes the free space for the count (the
\* line copied from WriteRingBuffer and left as it was).
ReadRingBuffer_UsesFreeSpace(rb, mem, out, Size) ==
    IF rb.Capacity = 0
    THEN Outcome(rb, mem, out, 0, << >>, "none")
    ELSE
    LET Index  == rb.ReadIndex % rb.Capacity
        Slack  == SIZE_T(rb.Capacity - Index)
        Count  == FreeSpaceRingBuffer(rb)
        ToRead == Min(Count, Size)
        one    == << [at |-> Index, len |-> ToRead] >>
        two    == << [at |-> Index, len |-> Slack],
                     [at |-> 0, len |-> SIZE_T(ToRead - Slack)] >>
        after  == [rb EXCEPT !.ReadIndex = SIZE_T(@ + ToRead)]
    IN  IF ToRead = 0
        THEN Outcome(rb, mem, out, 0, << >>, "none")
        ELSE IF ToRead <= Slack
        THEN Outcome(after, mem, MemcpyFromBuffer(out, 0, mem, Index, ToRead),
                     ToRead, one, Access(mem, one))
        ELSE Outcome(after, mem,
                     MemcpyFromBuffer(MemcpyFromBuffer(out, 0, mem, Index, Slack),
                                      Slack, mem, 0, SIZE_T(ToRead - Slack)),
                     ToRead, two, Access(mem, two))

\* A variant of ReadRingBuffer that copies a byte before it looks at Size (a
\* do-while in place of the two memcpy).
ReadRingBuffer_AtLeastOne(rb, mem, out, Size) ==
    IF rb.Capacity = 0
    THEN Outcome(rb, mem, out, 0, << >>, "none")
    ELSE
    LET Index  == rb.ReadIndex % rb.Capacity
        Slack  == SIZE_T(rb.Capacity - Index)
        Count  == CountRingBuffer(rb)
        ToRead == Min(Count, IF Size = 0 THEN 1 ELSE Size)
        one    == << [at |-> Index, len |-> ToRead] >>
        two    == << [at |-> Index, len |-> Slack],
                     [at |-> 0, len |-> SIZE_T(ToRead - Slack)] >>
        after  == [rb EXCEPT !.ReadIndex = SIZE_T(@ + ToRead)]
    IN  IF ToRead = 0
        THEN Outcome(rb, mem, out, 0, << >>, "none")
        ELSE IF ToRead <= Slack
        THEN Outcome(after, mem, MemcpyFromBuffer(out, 0, mem, Index, ToRead),
                     ToRead, one, Access(mem, one))
        ELSE \* Split the read across the buffer boundary.
             Outcome(after, mem,
                     MemcpyFromBuffer(MemcpyFromBuffer(out, 0, mem, Index, Slack),
                                      Slack, mem, 0, SIZE_T(ToRead - Slack)),
                     ToRead, two, Access(mem, two))

\* A variant of ReadRingBuffer that takes the slack from the cursor itself, not
\* from the cursor modulo Capacity.
ReadRingBuffer_SlackFromCursor(rb, mem, out, Size) ==
    IF rb.Capacity = 0
    THEN Outcome(rb, mem, out, 0, << >>, "none")
    ELSE
    LET Index  == rb.ReadIndex % rb.Capacity
        Slack  == SIZE_T(rb.Capacity - rb.ReadIndex)
        Count  == CountRingBuffer(rb)
        ToRead == Min(Count, Size)
        one    == << [at |-> Index, len |-> ToRead] >>
        two    == << [at |-> Index, len |-> Slack],
                     [at |-> 0, len |-> SIZE_T(ToRead - Slack)] >>
        after  == [rb EXCEPT !.ReadIndex = SIZE_T(@ + ToRead)]
    IN  IF ToRead = 0
        THEN Outcome(rb, mem, out, 0, << >>, "none")
        ELSE IF ToRead <= Slack
        THEN Outcome(after, mem, MemcpyFromBuffer(out, 0, mem, Index, ToRead),
                     ToRead, one, Access(mem, one))
        ELSE \* Split the read across the buffer boundary.
             Outcome(after, mem,
                     MemcpyFromBuffer(MemcpyFromBuffer(out, 0, mem, Index, Slack),
                                      Slack, mem, 0, SIZE_T(ToRead - Slack)),
                     ToRead, two, Access(mem, two))

ReadRingBuffer(rb, mem, out, Size) ==
    IF rb.Capacity = 0
    THEN Outcome(rb, mem, out, 0, << >>, "none")
    ELSE
    LET Index  == rb.ReadIndex % rb.Capacity
        Slack  == SIZE_T(rb.Capacity - Index)
        Count  == CountRingBuffer(rb)
        ToRead == Min(Count, Size)
        one    == << [at |-> Index, len |-> ToRead] >>
        two    == << [at |-> Index, len |-> Slack],
                     [at |-> 0, len |-> SIZE_T(ToRead - Slack)] >>
        after  == [rb EXCEPT !.ReadIndex = SIZE_T(@ + ToRead)]
    IN  IF ToRead = 0
        THEN Outcome(rb, mem, out, 0, << >>, "none")
        ELSE IF ToRead <= Slack
        THEN Outcome(after, mem, MemcpyFromBuffer(out, 0, mem, Index, ToRead),
                     ToRead, one, Access(mem, one))
        ELSE \* Split the read across the buffer boundary.
             Outcome(after, mem,
                     MemcpyFromBuffer(MemcpyFromBuffer(out, 0, mem, Index, Slack),
                                      Slack, mem, 0, SIZE_T(ToRead - Slack)),
                     ToRead, two, Access(mem, two))

\* ------------------------------------------------------------------- state
VARIABLES
    pc,          \* "declared", "live", "failed" (malloc returned nullptr),
                 \* "destroyed" or "crashed" (the process was killed)
    RingBuffer,  \* the RINGBUFFER struct
    storage,     \* the block RingBuffer.Buffer points to
    Result,      \* the caller's array the reads fill
    call,        \* the last call made: its name and its Size argument
    ret,         \* the value the last call returned
    copies,      \* the copies the last call made: << [at, len], ... >>
    fault,       \* "none", or the undefined behaviour some call ran into
    alloc,       \* the allocator: live blocks, counts of malloc and free
    offered,     \* every byte handed to a write, in order, while no write
                 \* was larger than the free space
    overflowed,  \* some write was larger than the free space
    accepted,    \* the bytes the writes reported as written, in order
    delivered,   \* the bytes the reads reported as read, in order
    fifo         \* a queue of bytes that is given the same calls

\* MaxHeap.cpp (src/unnamed/part_000) is a program of its own; its state:
VARIABLES
    MaxHeap,     \* the array: the header in element 0, the keys from 1 on
    Key,         \* the caller's KEY that Pop and Peek write through PKEY
    hcall,       \* the last MaxHeap call: its name, the key it was given,
                 \* what it returned
    batch,       \* history: how many of each key were stored after the last
                 \* successful Push
    popped       \* history: the keys popped since the last successful Push

\* BST.cpp (src/BST/BST.cpp, src/unnamed/part_003) is a program of its own;
\* its state:
VARIABLES
    Nodes,       \* the TREENODEs allocated so far, by address 1, 2, ...; the
                 \* node at address 1 is the one Root owns
    tcall,       \* the last call: its name, the key it was given, the
                 \* pointer it returned
    inserted,    \* history: the key of the root and the keys for which
                 \* Insert returned a node
    emitted      \* the keys the last call wrote to std::cout, in order

\* Graphs.cpp (src/Graphs/Graphs.cpp) is a program of its own; its state:
VARIABLES
    g,           \* the Graph: Edges, Vertices, Neighbors, Visited, Dirty
    gcall,       \* the last call: its name, its vertices, what it returned
    callbacks    \* the invocations of the callback during the last walk,
                 \* in order: << [Name, Distance, ret], ... >>

\* The byte-by-byte variant of the ring buffer (lines 698-899), run next to
\* the last variant on the same calls:
VARIABLES
    SlowRingBuffer,  \* its RINGBUFFER struct
    slowStorage,     \* the block its Buffer points to
    SlowResult,      \* the caller's array its reads fill
    slowRet          \* the value its last call returned

\* Two threads on one ring buffer of the last variant, one that only writes
\* and one that only reads:
VARIABLES
    writer,      \* the writing thread: where it is in WriteRingBuffer (pc) and
                 \* the arguments and locals of the call it is in
    reader,      \* the reading thread: the same for ReadRingBuffer
    pending      \* the bytes a producer has still to get into the buffer

ringvars == << pc, RingBuffer, storage, Result, call, ret, copies, fault,
               alloc, offered, overflowed, accepted, delivered, fifo >>

heapvars == << MaxHeap, Key, hcall, batch, popped >>

treevars == << Nodes, tcall, inserted, emitted >>

graphvars == << g, gcall, callbacks >>

slowvars == << SlowRingBuffer, slowStorage, SlowResult, slowRet >>

threadvars == << writer, reader, pending >>

\* What a ring-buffer call, a max-heap call, a tree call and a graph call
\* leave alone: the state of the other programs.
exceptRing == << heapvars, treevars, graphvars, slowvars, threadvars >>

exceptHeap == << ringvars, treevars, graphvars, slowvars, threadvars >>

exceptTree == << ringvars, heapvars, graphvars, slowvars, threadvars >>

exceptGraph == << ringvars, heapvars, treevars, slowvars, threadvars >>

vars == << pc, RingBuffer, storage, Result, call, ret, copies, fault, alloc,
           offered, overflowed, accepted, delivered, fifo,
           MaxHeap, Key, hcall, batch, popped,
           Nodes, tcall, inserted, emitted,
           g, gcall, callbacks,
           SlowRingBuffer, slowStorage, SlowResult, slowRet,
           writer, reader, pending >>

\* The first n elements of a sequence (all of it when it is shorter).
Take(s, n) == SubSeq(s, 1, Min(n, Len(s)))

\* The queue after a write of Data / a read of Size bytes, for a queue that
\* holds at most Capacity bytes.
FifoWrite(q, Capacity, Data) == q \o Take(Data, Capacity - Len(q))
FifoRead(q, Size) == SubSeq(q, Min(Size, Len(q)) + 1, Len(q))

Usable == pc \in {"live", "failed", "destroyed"}

\* KEY is uint64_t; the keys of a run come from 0..MaxKey.
KEY == 0..MaxKey

\* No max-heap has been declared.
NoHeap ==
    /\ MaxHeap = << >>
    /\ Key = 0
    /\ hcall = [op |-> "none", Key |-> 0, ret |-> FALSE]
    /\ batch = [k \in KEY |-> 0]
    /\ popped = << >>

\* No tree has been created.
NoTree ==
    /\ Nodes = << >>
    /\ tcall = [op |-> "none", Key |-> 0, ret |-> 0]
    /\ inserted = {}
    /\ emitted = << >>

\* Graph g; as its constructors leave it.
EmptyGraph ==
    [Edges |-> {}, Vertices |-> {}, Neighbors |-> << >>, Visited |-> {},
     Dirty |-> FALSE]

\* No call on the graph has been made.
NoGraph ==
    /\ g = EmptyGraph
    /\ gcall = [op |-> "none", From |-> 0, To |-> 0, ret |-> 0]
    /\ callbacks = << >>

\* No byte-by-byte buffer runs next to the ring buffer.
NoSlow ==
    /\ SlowRingBuffer = ZeroedRingBuffer
    /\ slowStorage = NoStorage
    /\ SlowResult = ZeroedResult
    /\ slowRet = 0

\* A thread that is in no call, and a run without threads.
IdleWriter ==
    [pc |-> "idle", Data |-> << >>, Size |-> 0,
     Index |-> 0, Slack |-> 0, Space |-> 0, ToWrite |-> 0]

IdleReader ==
    [pc |-> "idle", Size |-> 0,
     Index |-> 0, Slack |-> 0, Count |-> 0, ToRead |-> 0]

NoThreads ==
    /\ writer = IdleWriter
    /\ reader = IdleReader
    /\ pending = << >>

Init ==
    /\ NoHeap
    /\ NoTree
    /\ NoGraph
    /\ NoThreads
    /\ NoSlow
    /\ pc = "declared"
    /\ RingBuffer \in GarbageRingBuffer
    /\ storage = NoStorage
    /\ Result = ZeroedResult
    /\ call = [op |-> "none", Size |-> 0]
    /\ ret = 0
    /\ copies = << >>
    /\ fault = "none"
    /\ alloc = NoBlocks
    /\ offered = << >>
    /\ overflowed = FALSE
    /\ accepted = << >>
    /\ delivered = << >>
    /\ fifo = << >>

\* A call that met undefined behaviour either kills the process or returns.
Traps(res) == IF res.fault = "none" THEN {FALSE} ELSE {FALSE, TRUE}

\* The effect of a write call with outcome res on the state.
WriteStep(name, Data, res) ==
    /\ call' = [op |-> name, Size |-> Len(Data)]
    /\ fault' = IF res.fault = "none" THEN fault ELSE res.fault
    /\ UNCHANGED << alloc, exceptRing >>
    /\ \E trap \in Traps(res) :
        IF trap
        THEN /\ pc' = "crashed"
             /\ UNCHANGED << RingBuffer, storage, Result, ret, copies, offered,
                             overflowed, accepted, delivered, fifo >>
        ELSE /\ pc' = pc
             /\ RingBuffer' = res.rb
             /\ storage' = res.mem
             /\ Result' = res.out
             /\ ret' = res.ret
             /\ copies' = res.copies
             /\ overflowed' = (overflowed
                                 \/ Len(Data) > FreeSpaceRingBuffer(RingBuffer))
             /\ offered' = IF overflowed' THEN << >> ELSE offered \o Data
             /\ accepted' = accepted \o Take(Data, res.ret)
             /\ fifo' = FifoWrite(fifo, RingBuffer.Capacity, Data)
             /\ UNCHANGED delivered

\* The effect of a read call with outcome res on the state.
ReadStep(name, Size, res) ==
    /\ call' = [op |-> name, Size |-> Size]
    /\ fault' = IF res.fault = "none" THEN fault ELSE res.fault
    /\ UNCHANGED << alloc, exceptRing >>
    /\ \E trap \in Traps(res) :
        IF trap
        THEN /\ pc' = "crashed"
             /\ UNCHANGED << RingBuffer, storage, Result, ret, copies, offered,
                             overflowed, accepted, delivered, fifo >>
        ELSE /\ pc' = pc
             /\ RingBuffer' = res.rb
             /\ storage' = res.mem
             /\ Result' = res.out
             /\ ret' = res.ret
             /\ copies' = res.copies
             /\ delivered' = delivered \o Take(res.out, res.ret)
             /\ fifo' = FifoRead(fifo, Size)
             /\ UNCHANGED << offered, overflowed, accepted >>

\* The start of a new life of the struct: no byte written or read yet.
NewStream ==
    /\ offered' = << >>
    /\ overflowed' = FALSE
    /\ accepted' = << >>
    /\ delivered' = << >>
    /\ fifo' = << >>

\* ----------------------------------------------------------------- actions
Initialize ==
    /\ pc \in {"declared", "failed", "destroyed"}
    /\ \E Capacity \in 0..MaxCapacity, allocated \in BOOLEAN :
        LET res == InitializeRingBuffer(RingBuffer, Capacity, allocated) IN
        /\ RingBuffer' = res.rb
        /\ ret' = res.ret
        /\ pc' = IF Capacity > 0 /\ ~allocated THEN "failed" ELSE "live"
        \* malloc is called when Capacity > 0; it does not initialize the
        \* block it returns
        /\ alloc' = IF Capacity > 0 /\ allocated
                    THEN Malloc([alloc EXCEPT !.allocs = 0, !.frees = 0])
                    ELSE [alloc EXCEPT !.allocs = 0, !.frees = 0]
        /\ storage' \in IF Capacity > 0 /\ allocated
                        THEN [0..(Capacity - 1) -> BYTE]
                        ELSE {NoStorage}
        /\ call' = [op |-> "Initialize", Size |-> Capacity]
    /\ copies' = << >>
    /\ NewStream
    /\ UNCHANGED << Result, fault, exceptRing >>

\* The effect of DestroyRingBuffer with outcome res on the state.
DestroyStep(res) ==
    /\ call' = [op |-> "Destroy", Size |-> 0]
    /\ fault' = IF res.fault = "none" THEN fault ELSE res.fault
    /\ \E trap \in Traps(res) :
        IF trap
        THEN /\ pc' = "crashed"
             /\ UNCHANGED << RingBuffer, storage, alloc, copies, offered,
                             overflowed, accepted, delivered, fifo >>
        ELSE /\ pc' = "destroyed"
             /\ RingBuffer' = res.rb
             /\ alloc' = res.alloc
             \* the bytes of a block that was freed are gone
             /\ storage' = IF res.alloc.live = alloc.live
                           THEN storage ELSE NoStorage
             /\ copies' = << >>
             /\ NewStream
    /\ UNCHANGED << Result, ret, exceptRing >>

Destroy ==
    /\ pc = "live"
    /\ DestroyStep(DestroyRingBuffer(RingBuffer, alloc))

Write ==
    /\ Usable
    /\ \E Size \in 0..MaxSize : \E Data \in [1..Size -> BYTE] :
        LET res == WriteRingBuffer(RingBuffer, storage, Result, Data, Size) IN
        /\ res.rb.WriteIndex <= MaxCursor
        /\ WriteStep("Write", Data, res)

WriteByte ==
    /\ Usable
    /\ \E Data \in BYTE :
        LET res == WriteByteRingBuffer(RingBuffer, storage, Result, Data) IN
        /\ res.rb.WriteIndex <= MaxCursor
        /\ WriteStep("WriteByte", << Data >>, res)

Read ==
    /\ Usable
    /\ \E Size \in 0..MaxSize :
        ReadStep("Read", Size, ReadRingBuffer(RingBuffer, storage, Result, Size))

ReadByte ==
    /\ Usable
    /\ ReadStep("ReadByte", 1, ReadByteRingBuffer(RingBuffer, storage, Result))

Next ==
    \/ Initialize
    \/ Destroy
    \/ Write
    \/ WriteByte
    \/ Read
    \/ ReadByte

Spec == Init /\ [][Next]_vars

\* ------------------------------------------- the first variant (lines 1-326)
\* No test of Capacity: malloc is called with whatever Capacity is, and
\* malloc(0) returns nullptr or a block of no bytes.
V1_InitializeRingBuffer(rb, Capacity, allocated) ==
    IF ~allocated
    THEN [rb |-> [Memset0(rb) EXCEPT !.Buffer = NULL], ret |-> 0]
    ELSE [rb |-> [Memset0(rb) EXCEPT !.Buffer = BLOCK,
                                     !.Capacity = Capacity],
          ret |-> Capacity]

\* A variant of the first FreeSpaceRingBuffer whose Capacity - WriteIndex stops
\* at 0 instead of wrapping.
V1_FreeSpaceRingBuffer_Saturating(rb) ==
    SIZE_T((IF rb.WriteIndex > rb.Capacity
            THEN 0
            ELSE rb.Capacity - rb.WriteIndex) + rb.ReadIndex)

V1_FreeSpaceRingBuffer(rb) ==
    SIZE_T(SIZE_T(rb.Capacity - rb.WriteIndex) + rb.ReadIndex)

V1_CountRingBuffer(rb) == SIZE_T(rb.WriteIndex - rb.ReadIndex)

V1_IsEmptyRingBuffer(rb) == V1_CountRingBuffer(rb) = 0

V1_IsFullRingBuffer(rb) == V1_FreeSpaceRingBuffer(rb) = 0

V1_WriteByteRingBuffer(rb, mem, out, Data) ==
    IF V1_IsFullRingBuffer(rb)
    THEN Outcome(rb, mem, out, 0, << >>, "none")
    ELSE LET Index == Clamp(rb.WriteIndex, rb.Capacity)
             segs  == << [at |-> Index, len |-> 1] >>
         IN  Outcome([rb EXCEPT !.WriteIndex = SIZE_T(@ + 1)],
                     MemcpyToBuffer(mem, Index, << Data >>, 0, 1),
                     out, 1, segs,
                     IF rb.Capacity = 0 THEN "div0" ELSE Access(mem, segs))

\* The first statement divides by Capacity, whatever it is.
V1_WriteRingBuffer(rb, mem, out, Data, Size) ==
    LET ClampedWriteindex == Clamp(rb.WriteIndex, rb.Capacity)
        FreeSpace  == V1_FreeSpaceRingBuffer(rb)
        WriteSlack == SIZE_T(rb.Capacity - ClampedWriteindex)
        ToWrite    == Min(FreeSpace, Size)
        one        == << [at |-> ClampedWriteindex, len |-> ToWrite] >>
        two        == << [at |-> ClampedWriteindex, len |-> WriteSlack],
                         [at |-> 0, len |-> SIZE_T(ToWrite - WriteSlack)] >>
        after      == [rb EXCEPT !.WriteIndex = SIZE_T(@ + ToWrite)]
    IN  IF ToWrite <= WriteSlack
        THEN Outcome(after,
                     MemcpyToBuffer(mem, ClampedWriteindex, Data, 0, ToWrite),
                     out, ToWrite, one,
                     IF rb.Capacity = 0 THEN "div0" ELSE Access(mem, one))
        ELSE Outcome(after,
                     MemcpyToBuffer(
                         MemcpyToBuffer(mem, ClampedWriteindex, Data, 0,
                                        WriteSlack),
                         0, Data, WriteSlack, SIZE_T(ToWrite - WriteSlack)),
                     out, ToWrite, two,
                     IF rb.Capacity = 0 THEN "div0" ELSE Access(mem, two))

V1_ReadByteRingBuffer(rb, mem, out) ==
    IF V1_IsEmptyRingBuffer(rb)
    THEN Outcome(rb, mem, out, 0, << >>, "none")
    ELSE LET Index == Clamp(rb.ReadIndex, rb.Capacity)
             segs  == << [at |-> Index, len |-> 1] >>
         IN  Outcome([rb EXCEPT !.ReadIndex = SIZE_T(@ + 1)],
                     mem,
                     MemcpyFromBuffer(out, 0, mem, Index, 1),
                     1, segs,
                     IF rb.Capacity = 0 THEN "div0" ELSE Access(mem, segs))

V1_ReadRingBuffer(rb, mem, out, Size) ==
    LET ClampedReadindex == Clamp(rb.ReadIndex, rb.Capacity)
        OccupiedSpace == V1_CountRingBuffer(rb)
        ReadSlack     == SIZE_T(rb.Capacity - ClampedReadindex)
        ToRead        == Min(OccupiedSpace, Size)
        one           == << [at |-> ClampedReadindex, len |-> ToRead] >>
        two           == << [at |-> ClampedReadindex, len |-> ReadSlack],
                            [at |-> 0, len |-> SIZE_T(ToRead - ReadSlack)] >>
        after         == [rb EXCEPT !.ReadIndex = SIZE_T(@ + ToRead)]
    IN  IF ToRead <= ReadSlack
        THEN Outcome(after, mem,
                     MemcpyFromBuffer(out, 0, mem, ClampedReadindex, ToRead),
                     ToRead, one,
                     IF rb.Capacity = 0 THEN "div0" ELSE Access(mem, one))
        ELSE Outcome(after, mem,
                     MemcpyFromBuffer(
                         MemcpyFromBuffer(out, 0, mem, ClampedReadindex,
                                          ReadSlack),
                         ReadSlack, mem, 0, SIZE_T(ToRead - ReadSlack)),
                     ToRead, two,
                     IF rb.Capacity = 0 THEN "div0" ELSE Access(mem, two))

\* main of the first variant goes on after a failed initialization (lines
\* 182-189), so the calls below are made in every state but "declared".
V1_Initialize ==
    /\ pc \in {"declared", "failed", "destroyed"}
    /\ \E Capacity \in 0..MaxCapacity, allocated \in BOOLEAN :
        LET res == V1_InitializeRingBuffer(RingBuffer, Capacity, allocated) IN
        /\ RingBuffer' = res.rb
        /\ ret' = res.ret
        /\ pc' = IF ~allocated THEN "failed" ELSE "live"
        /\ alloc' = IF allocated
                    THEN Malloc([alloc EXCEPT !.allocs = 0, !.frees = 0])
                    ELSE [alloc EXCEPT !.allocs = 0, !.frees = 0]
        /\ storage' \in IF allocated
                        THEN [0..(Capacity - 1) -> BYTE]
                        ELSE {NoStorage}
        /\ call' = [op |-> "Initialize", Size |-> Capacity]
    /\ copies' = << >>
    /\ NewStream
    /\ UNCHANGED << Result, fault, exceptRing >>

V1_Write ==
    /\ Usable
    /\ \E Size \in 0..MaxSize : \E Data \in [1..Size -> BYTE] :
        LET res == V1_WriteRingBuffer(RingBuffer, storage, Result, Data, Size)
        IN  /\ res.rb.WriteIndex <= MaxCursor
            /\ WriteStep("Write", Data, res)

V1_WriteByte ==
    /\ Usable
    /\ \E Data \in BYTE :
        LET res == V1_WriteByteRingBuffer(RingBuffer, storage, Result, Data)
        IN  /\ res.rb.WriteIndex <= MaxCursor
            /\ WriteStep("WriteByte", << Data >>, res)

V1_Read ==
    /\ Usable
    /\ \E Size \in 0..MaxSize :
        ReadStep("Read", Size,
                 V1_ReadRingBuffer(RingBuffer, storage, Result, Size))

V1_ReadByte ==
    /\ Usable
    /\ ReadStep("ReadByte", 1,
                V1_ReadByteRingBuffer(RingBuffer, storage, Result))

V1_Next ==
    \/ V1_Initialize
    \/ Destroy
    \/ V1_Write
    \/ V1_WriteByte
    \/ V1_Read
    \/ V1_ReadByte

SpecV1 == Init /\ [][V1_Next]_vars

\* ------------------------------- storage supplied by the caller (lines 943-952)
\* The address of memory that the caller owns: neither nullptr nor a block
\* that malloc returned.
CALLER == 2

\* "declare a RINGBUFFER struct, zero it, and make Buffer point to any memory
\* location of your choosing.  Initialize the Capacity member": no call of
\* InitializeRingBuffer.
Adopt ==
    /\ pc \in {"declared", "destroyed"}
    /\ \E Capacity \in 1..MaxCapacity :
        /\ RingBuffer' = [Memset0(RingBuffer) EXCEPT !.Buffer = CALLER,
                                                     !.Capacity = Capacity]
        /\ storage' \in [0..(Capacity - 1) -> BYTE]
        /\ call' = [op |-> "Adopt", Size |-> Capacity]
    /\ pc' = "live"
    /\ alloc' = NoBlocks
    /\ copies' = << >>
    /\ NewStream
    /\ UNCHANGED << Result, ret, fault, exceptRing >>

Caller_Next ==
    \/ Adopt
    \/ Write
    \/ WriteByte
    \/ Read
    \/ ReadByte
    \/ Destroy

SpecCaller == Init /\ [][Caller_Next]_vars

\* ------------------------------------- cursors about to pass 2^SizeBits - 1
\* The cursors are SIZE_T fields that "WriteIndex += ToWrite" (line 1050) and
\* "ReadIndex += ToRead" (line 1111) advance with no check.  A live, empty
\* buffer whose cursors have come within MaxSize bytes of SIZE_MODULUS: the
\* state after that many bytes have gone through it.
W_Init ==
    /\ NoHeap
    /\ NoTree
    /\ NoGraph
    /\ NoThreads
    /\ NoSlow
    /\ pc = "live"
    /\ \E Capacity \in 1..MaxCapacity :
        /\ RingBuffer \in [Buffer : {BLOCK}, Capacity : {Capacity},
                           ReadIndex : (SIZE_MODULUS - MaxSize)..(SIZE_MODULUS - 1),
                           WriteIndex : (SIZE_MODULUS - MaxSize)..(SIZE_MODULUS - 1)]
        /\ RingBuffer.ReadIndex = RingBuffer.WriteIndex
        /\ storage \in [0..(Capacity - 1) -> BYTE]
    /\ Result = ZeroedResult
    /\ call = [op |-> "none", Size |-> 0]
    /\ ret = 0
    /\ copies = << >>
    /\ fault = "none"
    /\ alloc = Malloc(NoBlocks)
    /\ offered = << >>
    /\ overflowed = FALSE
    /\ accepted = << >>
    /\ delivered = << >>
    /\ fifo = << >>

\* WriteRingBuffer, for as long as at most MaxCursor bytes have been accepted
\* since W_Init.
W_Write ==
    /\ Usable
    /\ \E Size \in 0..MaxSize : \E Data \in [1..Size -> BYTE] :
        LET res == WriteRingBuffer(RingBuffer, storage, Result, Data, Size) IN
        /\ Len(accepted) + res.ret <= MaxCursor
        /\ WriteStep("Write", Data, res)

W_WriteByte ==
    /\ Usable
    /\ \E Data \in BYTE :
        LET res == WriteByteRingBuffer(RingBuffer, storage, Result, Data) IN
        /\ Len(accepted) + res.ret <= MaxCursor
        /\ WriteStep("WriteByte", << Data >>, res)

W_Next ==
    \/ W_Write
    \/ W_WriteByte
    \/ Read
    \/ ReadByte

SpecW == W_Init /\ [][W_Next]_vars

\* The same for every capacity up to WrapCapacity, since InitializeRingBuffer
\* takes any Capacity (lines 943-952).
Wrap_Init ==
    /\ NoHeap
    /\ NoTree
    /\ NoGraph
    /\ NoThreads
    /\ NoSlow
    /\ pc = "live"
    /\ \E Capacity \in 1..WrapCapacity :
        /\ RingBuffer \in [Buffer : {BLOCK}, Capacity : {Capacity},
                           ReadIndex : (SIZE_MODULUS - MaxSize)..(SIZE_MODULUS - 1),
                           WriteIndex : (SIZE_MODULUS - MaxSize)..(SIZE_MODULUS - 1)]
        /\ RingBuffer.ReadIndex = RingBuffer.WriteIndex
        /\ storage \in [0..(Capacity - 1) -> BYTE]
    /\ Result = ZeroedResult
    /\ call = [op |-> "none", Size |-> 0]
    /\ ret = 0
    /\ copies = << >>
    /\ fault = "none"
    /\ alloc = Malloc(NoBlocks)
    /\ offered = << >>
    /\ overflowed = FALSE
    /\ accepted = << >>
    /\ delivered = << >>
    /\ fifo = << >>

SpecWrap == Wrap_Init /\ [][W_Next]_vars

\* ------------------------------------- MaxHeap.cpp (src/unnamed/part_000)
\* The array MAXHEAP MaxHeap[Capacity + 1] is a function on 0..Capacity:
\* element 0 holds the MAXHEAP_HEADER, elements 1..Capacity hold keys.
MaxHeapPrivate_GetHeader(heap) == heap[0]

\* std::swap(MaxHeap[i], MaxHeap[j])
Swap(heap, i, j) == [heap EXCEPT ![i] = heap[j], ![j] = heap[i]]

RECURSIVE MaxHeapPrivate_BubbleUp(_, _)
\* The while loop of MaxHeapPrivate_BubbleUp, one iteration per unfolding.
MaxHeapPrivate_BubbleUp(heap, Index) ==
    IF Index > 1
    THEN LET Parent == Index \div 2 IN
         IF heap[Parent] < heap[Index]
         THEN MaxHeapPrivate_BubbleUp(Swap(heap, Parent, Index), Parent)
         ELSE heap
    ELSE heap

RECURSIVE MaxHeapPrivate_BubbleDown_LeftChildOnly(_, _)
\* A variant of MaxHeapPrivate_BubbleDown that never looks at the right child.
MaxHeapPrivate_BubbleDown_LeftChildOnly(heap, Index) ==
    IF Index < MaxHeapPrivate_GetHeader(heap).Count
    THEN LET Child == Index * 2 IN
         IF /\ Child <= MaxHeapPrivate_GetHeader(heap).Count
            /\ heap[Child] > heap[Index]
         THEN MaxHeapPrivate_BubbleDown_LeftChildOnly(
                  Swap(heap, Child, Index), Child)
         ELSE heap
    ELSE heap

RECURSIVE MaxHeapPrivate_BubbleDown(_, _)
\* The while loop of MaxHeapPrivate_BubbleDown, one iteration per unfolding.
MaxHeapPrivate_BubbleDown(heap, Index) ==
    IF Index < MaxHeapPrivate_GetHeader(heap).Count
    THEN LET Left  == Index * 2
             Child == IF /\ Left < MaxHeapPrivate_GetHeader(heap).Count
                         /\ heap[Left + 1] > heap[Left]
                      THEN Left + 1
                      ELSE Left
         IN  IF /\ Child <= MaxHeapPrivate_GetHeader(heap).Count
                /\ heap[Child] > heap[Index]
             THEN MaxHeapPrivate_BubbleDown(Swap(heap, Child, Index), Child)
             ELSE heap
    ELSE heap

\* MaxHeap_Init writes the header of the array it is handed.
MaxHeap_Init(heap, Capacity) ==
    [heap EXCEPT ![0] = [Count |-> 0, Capacity |-> Capacity]]

MaxHeap_Count(heap) == MaxHeapPrivate_GetHeader(heap).Count

MaxHeap_Capacity(heap) == MaxHeapPrivate_GetHeader(heap).Capacity

MaxHeap_IsFull(heap) ==
    MaxHeapPrivate_GetHeader(heap).Count
        >= MaxHeapPrivate_GetHeader(heap).Capacity

MaxHeap_IsEmpty(heap) == MaxHeapPrivate_GetHeader(heap).Count = 0

\* A variant of MaxHeap_Push that stores the key in the last element of a
\* full heap before it returns false.
MaxHeap_Push_OverwritesLast(heap, NewKey) ==
    IF MaxHeap_IsFull(heap)
    THEN [heap |-> IF MaxHeap_Count(heap) > 0
                   THEN [heap EXCEPT ![MaxHeap_Count(heap)] = NewKey]
                   ELSE heap,
          ret |-> FALSE]
    ELSE LET Count == MaxHeapPrivate_GetHeader(heap).Count + 1
             stored == [heap EXCEPT ![0].Count = Count, ![Count] = NewKey]
         IN  [heap |-> MaxHeapPrivate_BubbleUp(stored, Count), ret |-> TRUE]

\* MaxHeap_Push: the array it leaves and the value it returns.
MaxHeap_Push(heap, NewKey) ==
    IF MaxHeap_IsFull(heap)
    THEN [heap |-> heap, ret |-> FALSE]
    ELSE LET Count == MaxHeapPrivate_GetHeader(heap).Count + 1
             stored == [heap EXCEPT ![0].Count = Count, ![Count] = NewKey]
         IN  [heap |-> MaxHeapPrivate_BubbleUp(stored, Count), ret |-> TRUE]

\* A variant of MaxHeap_Pop that leaves Header.Count as it was.
MaxHeap_Pop_KeepsCount(heap) ==
    IF MaxHeap_IsEmpty(heap)
    THEN [heap |-> heap, Key |-> 0, ret |-> FALSE]
    ELSE LET Count == MaxHeapPrivate_GetHeader(heap).Count
             moved == [heap EXCEPT ![1] = heap[Count]]
         IN  [heap |-> MaxHeapPrivate_BubbleDown(moved, 1),
              Key |-> heap[1], ret |-> TRUE]

\* MaxHeap_Pop: the array it leaves, what it writes to *Key, what it returns.
MaxHeap_Pop(heap) ==
    IF MaxHeap_IsEmpty(heap)
    THEN [heap |-> heap, Key |-> 0, ret |-> FALSE]
    ELSE LET Count == MaxHeapPrivate_GetHeader(heap).Count
             moved == [heap EXCEPT ![1] = heap[Count], ![0].Count = Count - 1]
         IN  [heap |-> MaxHeapPrivate_BubbleDown(moved, 1),
              Key |-> heap[1], ret |-> TRUE]

\* MaxHeap_Peek: what it writes to *Key and what it returns.
MaxHeap_Peek(heap) ==
    IF MaxHeap_IsEmpty(heap)
    THEN [Key |-> 0, ret |-> FALSE]
    ELSE [Key |-> heap[1], ret |-> TRUE]

\* How many times each key occurs in the sequence s.
Tally(s) == [k \in KEY |-> Cardinality({i \in DOMAIN s : s[i] = k})]

\* The keys the heap stores: elements 1..Count of the array.
Stored(heap) == [i \in 1..MaxHeap_Count(heap) |-> heap[i]]

\* No ring buffer in this program: its variables stay as they are.
H_Init ==
    /\ pc = "declared"
    /\ RingBuffer = ZeroedRingBuffer
    /\ storage = NoStorage
    /\ Result = ZeroedResult
    /\ call = [op |-> "none", Size |-> 0]
    /\ ret = 0
    /\ copies = << >>
    /\ fault = "none"
    /\ alloc = NoBlocks
    /\ offered = << >>
    /\ overflowed = FALSE
    /\ accepted = << >>
    /\ delivered = << >>
    /\ fifo = << >>
    /\ NoHeap
    /\ NoTree
    /\ NoGraph
    /\ NoThreads
    /\ NoSlow

\* DECLARE_MAXHEAP(MaxHeap, Capacity): an array of Capacity + 1 elements that
\* nothing has initialized, then MaxHeap_Init.
H_Declare ==
    /\ hcall.op = "none"
    /\ \E Capacity \in 0..HeapCapacity : \E garbage \in [1..Capacity -> KEY] :
        /\ MaxHeap' = MaxHeap_Init([i \in 0..Capacity |->
                                       IF i = 0 THEN [Count |-> 0, Capacity |-> 0]
                                                ELSE garbage[i]], Capacity)
        /\ hcall' = [op |-> "Init", Key |-> 0, ret |-> FALSE]
    /\ UNCHANGED << Key, batch, popped, exceptHeap >>

H_Push ==
    /\ hcall.op # "none"
    /\ \E NewKey \in KEY :
        LET res == MaxHeap_Push(MaxHeap, NewKey) IN
        /\ MaxHeap' = res.heap
        /\ hcall' = [op |-> "Push", Key |-> NewKey, ret |-> res.ret]
        /\ batch' = IF res.ret
                    THEN [k \in KEY |-> batch[k] - Tally(popped)[k]
                                          + (IF k = NewKey THEN 1 ELSE 0)]
                    ELSE batch
        /\ popped' = IF res.ret THEN << >> ELSE popped
    /\ UNCHANGED << Key, exceptHeap >>

H_Pop ==
    /\ hcall.op # "none"
    /\ LET res == MaxHeap_Pop(MaxHeap) IN
        /\ MaxHeap' = res.heap
        /\ Key' = res.Key
        /\ hcall' = [op |-> "Pop", Key |-> 0, ret |-> res.ret]
        /\ popped' = IF res.ret THEN Append(popped, res.Key) ELSE popped
    /\ UNCHANGED << batch, exceptHeap >>

H_Peek ==
    /\ hcall.op # "none"
    /\ LET res == MaxHeap_Peek(MaxHeap) IN
        /\ Key' = res.Key
        /\ hcall' = [op |-> "Peek", Key |-> 0, ret |-> res.ret]
    /\ UNCHANGED << MaxHeap, batch, popped, exceptHeap >>

H_Next ==
    \/ H_Declare
    \/ H_Push
    \/ H_Pop
    \/ H_Peek

SpecHeap == H_Init /\ [][H_Next]_vars

\* ----------------------------------------- BST.cpp (src/unnamed/part_003)
\* The keys of a run come from 0..MaxTreeKey (KEY is uint64_t).
TREEKEY == 0..MaxTreeKey

\* nullptr, and the address of the node that Root owns.
NULLNODE == 0
ROOT == 1

\* TREENODE(Key): Left and Right are nullptr.
TREENODE(NewKey) == [Key |-> NewKey, Left |-> NULLNODE, Right |-> NULLNODE]

RECURSIVE Find(_, _, _)
\* Find(Node, Key) on the nodes in tree: the address it returns.
Find(tree, Node, K) ==
    IF Node = NULLNODE
    THEN NULLNODE
    ELSE IF K = tree[Node].Key
    THEN Node
    ELSE IF K < tree[Node].Key
    THEN Find(tree, tree[Node].Left, K)
    ELSE Find(tree, tree[Node].Right, K)

RECURSIVE Insert_NoDuplicateCheck(_, _, _, _)
\* A variant of Insert without the test for a key that is already there.
Insert_NoDuplicateCheck(tree, Node, K, allocated) ==
    IF Node = NULLNODE
    THEN [tree |-> tree, ret |-> NULLNODE]
    ELSE IF K < tree[Node].Key
    THEN IF tree[Node].Left = NULLNODE
         THEN IF allocated
              THEN [tree |-> Append([tree EXCEPT ![Node].Left = Len(tree) + 1],
                                    TREENODE(K)),
                    ret |-> Len(tree) + 1]
              ELSE [tree |-> tree, ret |-> NULLNODE]
         ELSE Insert_NoDuplicateCheck(tree, tree[Node].Left, K, allocated)
    ELSE IF tree[Node].Right = NULLNODE
         THEN IF allocated
              THEN [tree |-> Append([tree EXCEPT ![Node].Right = Len(tree) + 1],
                                    TREENODE(K)),
                    ret |-> Len(tree) + 1]
              ELSE [tree |-> tree, ret |-> NULLNODE]
         ELSE Insert_NoDuplicateCheck(tree, tree[Node].Right, K, allocated)

RECURSIVE Insert(_, _, _, _)
\* Insert(Node, Key) on the nodes in tree; allocated tells whether
\* new (std::nothrow) returned a node.  The nodes it leaves and the address it
\* returns; a new node gets the next address.
Insert(tree, Node, K, allocated) ==
    IF Node = NULLNODE
    THEN [tree |-> tree, ret |-> NULLNODE]
    ELSE IF K = tree[Node].Key
    THEN [tree |-> tree, ret |-> Node]
    ELSE IF K < tree[Node].Key
    THEN IF tree[Node].Left = NULLNODE
         THEN IF allocated
              THEN [tree |-> Append([tree EXCEPT ![Node].Left = Len(tree) + 1],
                                    TREENODE(K)),
                    ret |-> Len(tree) + 1]
              ELSE [tree |-> tree, ret |-> NULLNODE]
         ELSE Insert(tree, tree[Node].Left, K, allocated)
    ELSE IF tree[Node].Right = NULLNODE
         THEN IF allocated
              THEN [tree |-> Append([tree EXCEPT ![Node].Right = Len(tree) + 1],
                                    TREENODE(K)),
                    ret |-> Len(tree) + 1]
              ELSE [tree |-> tree, ret |-> NULLNODE]
         ELSE Insert(tree, tree[Node].Right, K, allocated)

RECURSIVE DFS_PreOrder(_, _)
\* The keys DFS_PreOrder(Node) writes, in order.
DFS_PreOrder(tree, Node) ==
    IF Node = NULLNODE
    THEN << >>
    ELSE << tree[Node].Key >> \o DFS_PreOrder(tree, tree[Node].Left)
                              \o DFS_PreOrder(tree, tree[Node].Right)

RECURSIVE DFS_InOrder(_, _)
\* The keys DFS_InOrder(Node) writes, in order.
DFS_InOrder(tree, Node) ==
    IF Node = NULLNODE
    THEN << >>
    ELSE DFS_InOrder(tree, tree[Node].Left) \o << tree[Node].Key >>
                                            \o DFS_InOrder(tree, tree[Node].Right)

\* The keys DFS_PostOrder(Node) writes, in order: it calls DFS_InOrder on
\* both children (lines 206-207) and then writes the key of Node.
DFS_PostOrder(tree, Node) ==
    IF Node = NULLNODE
    THEN << >>
    ELSE DFS_InOrder(tree, tree[Node].Left)
             \o DFS_InOrder(tree, tree[Node].Right) \o << tree[Node].Key >>

\* No tree yet; the other programs are absent.
T_Init ==
    /\ pc = "declared"
    /\ RingBuffer = ZeroedRingBuffer
    /\ storage = NoStorage
    /\ Result = ZeroedResult
    /\ call = [op |-> "none", Size |-> 0]
    /\ ret = 0
    /\ copies = << >>
    /\ fault = "none"
    /\ alloc = NoBlocks
    /\ offered = << >>
    /\ overflowed = FALSE
    /\ accepted = << >>
    /\ delivered = << >>
    /\ fifo = << >>
    /\ NoHeap
    /\ NoTree
    /\ NoGraph
    /\ NoThreads
    /\ NoSlow

\* auto Root{ std::make_unique<TREENODE>(MiddleKey) };
T_Create ==
    /\ tcall.op = "none"
    /\ \E MiddleKey \in TREEKEY :
        /\ Nodes' = << TREENODE(MiddleKey) >>
        /\ inserted' = {MiddleKey}
        /\ tcall' = [op |-> "Create", Key |-> MiddleKey, ret |-> ROOT]
    /\ emitted' = << >>
    /\ UNCHANGED exceptTree

\* Insert(Root.get(), Key)
T_Insert ==
    /\ tcall.op # "none"
    /\ \E K \in TREEKEY : \E allocated \in BOOLEAN :
        LET res == Insert(Nodes, ROOT, K, allocated) IN
        /\ Nodes' = res.tree
        /\ inserted' = IF res.ret # NULLNODE THEN inserted \cup {K}
                                             ELSE inserted
        /\ tcall' = [op |-> "Insert", Key |-> K, ret |-> res.ret]
    /\ emitted' = << >>
    /\ UNCHANGED exceptTree

\* Search(Root.get(), Key): Find, and a line of text on a miss.
T_Search ==
    /\ tcall.op # "none"
    /\ \E K \in TREEKEY :
        tcall' = [op |-> "Find", Key |-> K, ret |-> Find(Nodes, ROOT, K)]
    /\ emitted' = << >>
    /\ UNCHANGED << Nodes, inserted, exceptTree >>

T_PreOrder ==
    /\ tcall.op # "none"
    /\ emitted' = DFS_PreOrder(Nodes, ROOT)
    /\ tcall' = [op |-> "DFS_PreOrder", Key |-> 0, ret |-> NULLNODE]
    /\ UNCHANGED << Nodes, inserted, exceptTree >>

T_InOrder ==
    /\ tcall.op # "none"
    /\ emitted' = DFS_InOrder(Nodes, ROOT)
    /\ tcall' = [op |-> "DFS_InOrder", Key |-> 0, ret |-> NULLNODE]
    /\ UNCHANGED << Nodes, inserted, exceptTree >>

T_PostOrder ==
    /\ tcall.op # "none"
    /\ emitted' = DFS_PostOrder(Nodes, ROOT)
    /\ tcall' = [op |-> "DFS_PostOrder", Key |-> 0, ret |-> NULLNODE]
    /\ UNCHANGED << Nodes, inserted, exceptTree >>

T_Next ==
    \/ T_Create
    \/ T_Insert
    \/ T_Search
    \/ T_PreOrder
    \/ T_InOrder
    \/ T_PostOrder

SpecTree == T_Init /\ [][T_Next]_vars

\* ------------------------- the byte-by-byte variant (lines 698-899) and the
\* ------------------------- last variant, given the same calls
\* InitializeRingBuffer of the byte-by-byte variant: calloc for every
\* Capacity; allocated tells whether calloc returned a block (for Capacity 0
\* it may return either).
Slow_InitializeRingBuffer(rb, Capacity, allocated) ==
    IF ~allocated
    THEN [rb |-> Memset0(rb), ret |-> 0]
    ELSE [rb |-> [Memset0(rb) EXCEPT !.Buffer = BLOCK, !.Capacity = Capacity],
          ret |-> Capacity]

\* calloc(Capacity, sizeof(BYTE)): a block of zeroes.
Calloc(Capacity) == [o \in 0..(Capacity - 1) |-> 0]

Slow_FreeSpaceRingBuffer(rb) ==
    SIZE_T(SIZE_T(rb.Capacity - rb.WriteIndex) + rb.ReadIndex)

Slow_CountRingBuffer(rb) == SIZE_T(rb.WriteIndex - rb.ReadIndex)

Slow_IsEmptyRingBuffer(rb) == Slow_CountRingBuffer(rb) = 0

Slow_IsFullRingBuffer(rb) == Slow_FreeSpaceRingBuffer(rb) = 0

RECURSIVE Slow_WriteLoop_PreIncrement(_, _, _, _, _, _)
\* A variant of the loop of the byte-by-byte WriteRingBuffer that advances
\* the cursor before it takes the offset.
Slow_WriteLoop_PreIncrement(rb, mem, Data, done, Size, ub) ==
    IF ~Slow_IsFullRingBuffer(rb) /\ Size # 0
    THEN Slow_WriteLoop_PreIncrement(
             [rb EXCEPT !.WriteIndex = SIZE_T(@ + 1)],
             MemcpyToBuffer(mem, Clamp(SIZE_T(rb.WriteIndex + 1), rb.Capacity),
                            Data, done, 1),
             Data, done + 1, SIZE_T(Size - 1),
             IF rb.Capacity = 0 THEN "div0" ELSE ub)
    ELSE [rb |-> rb, mem |-> mem, ret |-> done, fault |-> ub]

RECURSIVE Slow_WriteLoop(_, _, _, _, _, _)
\* The while loop of the byte-by-byte WriteRingBuffer (lines 781-784), one
\* iteration per unfolding; done is Data - Start.
Slow_WriteLoop(rb, mem, Data, done, Size, ub) ==
    IF ~Slow_IsFullRingBuffer(rb) /\ Size # 0
    THEN Slow_WriteLoop(
             [rb EXCEPT !.WriteIndex = SIZE_T(@ + 1)],
             MemcpyToBuffer(mem, Clamp(rb.WriteIndex, rb.Capacity),
                            Data, done, 1),
             Data, done + 1, SIZE_T(Size - 1),
             IF rb.Capacity = 0 THEN "div0" ELSE ub)
    ELSE [rb |-> rb, mem |-> mem, ret |-> done, fault |-> ub]

\* WriteRingBuffer, slow version (byte-by-byte).
Slow_WriteRingBuffer(rb, mem, Data, Size) ==
    Slow_WriteLoop(rb, mem, Data, 0, Size, "none")

RECURSIVE Slow_ReadLoop(_, _, _, _, _, _)
\* The while loop of the byte-by-byte ReadRingBuffer (lines 797-800).
Slow_ReadLoop(rb, mem, out, done, Size, ub) ==
    IF ~Slow_IsEmptyRingBuffer(rb) /\ Size # 0
    THEN Slow_ReadLoop(
             [rb EXCEPT !.ReadIndex = SIZE_T(@ + 1)],
             mem,
             MemcpyFromBuffer(out, done, mem,
                              Clamp(rb.ReadIndex, rb.Capacity), 1),
             done + 1, SIZE_T(Size - 1),
             IF rb.Capacity = 0 THEN "div0" ELSE ub)
    ELSE [rb |-> rb, out |-> out, ret |-> done, fault |-> ub]

\* ReadRingBuffer, slow version (byte-by-byte).
Slow_ReadRingBuffer(rb, mem, out, Size) ==
    Slow_ReadLoop(rb, mem, out, 0, Size, "none")

\* Two programs, each with a RINGBUFFER that nothing has initialized.
P_Init ==
    /\ pc = "declared"
    /\ RingBuffer \in GarbageRingBuffer
    /\ storage = NoStorage
    /\ Result = ZeroedResult
    /\ call = [op |-> "none", Size |-> 0]
    /\ ret = 0
    /\ copies = << >>
    /\ fault = "none"
    /\ alloc = NoBlocks
    /\ offered = << >>
    /\ overflowed = FALSE
    /\ accepted = << >>
    /\ delivered = << >>
    /\ fifo = << >>
    /\ SlowRingBuffer \in GarbageRingBuffer
    /\ slowStorage = NoStorage
    /\ SlowResult = ZeroedResult
    /\ slowRet = 0
    /\ NoHeap
    /\ NoTree
    /\ NoGraph
    /\ NoThreads

\* What no call of the two programs changes: the histories of the other
\* specifications and the state of the other programs.
pairFrame == << offered, overflowed, accepted, delivered, fifo,
                heapvars, treevars, graphvars, threadvars >>

\* InitializeRingBuffer in both programs with the same Capacity; both
\* allocations succeed or both fail when Capacity > 0.
P_Initialize ==
    /\ pc \in {"declared", "failed", "destroyed"}
    /\ \E Capacity \in 0..MaxCapacity : \E allocated, zeroBlock \in BOOLEAN :
        LET fast == InitializeRingBuffer(RingBuffer, Capacity, allocated)
            slow == Slow_InitializeRingBuffer(
                        SlowRingBuffer, Capacity,
                        IF Capacity > 0 THEN allocated ELSE zeroBlock)
        IN  /\ RingBuffer' = fast.rb
            /\ ret' = fast.ret
            /\ SlowRingBuffer' = slow.rb
            /\ slowRet' = slow.ret
            /\ pc' = IF Capacity > 0 /\ ~allocated THEN "failed" ELSE "live"
            /\ alloc' = IF Capacity > 0 /\ allocated
                        THEN Malloc([alloc EXCEPT !.allocs = 0, !.frees = 0])
                        ELSE [alloc EXCEPT !.allocs = 0, !.frees = 0]
            \* malloc leaves the bytes of the block as they are, calloc
            \* zeroes them
            /\ storage' \in IF Capacity > 0 /\ allocated
                            THEN [0..(Capacity - 1) -> BYTE]
                            ELSE {NoStorage}
            /\ slowStorage' = IF Capacity > 0 /\ allocated
                              THEN Calloc(Capacity)
                              ELSE NoStorage
            /\ call' = [op |-> "Initialize", Size |-> Capacity]
    /\ copies' = << >>
    /\ UNCHANGED << Result, SlowResult, fault, pairFrame >>

P_Destroy ==
    /\ pc = "live"
    /\ RingBuffer' = DestroyRingBuffer(RingBuffer, alloc).rb
    /\ alloc' = DestroyRingBuffer(RingBuffer, alloc).alloc
    /\ storage' = NoStorage
    /\ SlowRingBuffer' = Memset0(SlowRingBuffer)
    /\ slowStorage' = NoStorage
    /\ pc' = "destroyed"
    /\ call' = [op |-> "Destroy", Size |-> 0]
    /\ copies' = << >>
    /\ UNCHANGED << Result, SlowResult, ret, slowRet, fault, pairFrame >>

P_Write ==
    /\ Usable
    /\ \E Size \in 0..MaxSize : \E Data \in [1..Size -> BYTE] :
        LET fast == WriteRingBuffer(RingBuffer, storage, Result, Data, Size)
            slow == Slow_WriteRingBuffer(SlowRingBuffer, slowStorage, Data, Size)
        IN  /\ fast.rb.WriteIndex <= MaxCursor
            /\ slow.rb.WriteIndex <= MaxCursor
            /\ RingBuffer' = fast.rb
            /\ storage' = fast.mem
            /\ ret' = fast.ret
            /\ copies' = fast.copies
            /\ SlowRingBuffer' = slow.rb
            /\ slowStorage' = slow.mem
            /\ slowRet' = slow.ret
            /\ fault' = IF fast.fault # "none" THEN fast.fault
                        ELSE IF slow.fault # "none" THEN slow.fault
                        ELSE fault
            /\ call' = [op |-> "Write", Size |-> Size]
    /\ UNCHANGED << pc, alloc, Result, SlowResult, pairFrame >>

P_Read ==
    /\ Usable
    /\ \E Size \in 0..MaxSize :
        LET fast == ReadRingBuffer(RingBuffer, storage, Result, Size)
            slow == Slow_ReadRingBuffer(SlowRingBuffer, slowStorage,
                                        SlowResult, Size)
        IN  /\ RingBuffer' = fast.rb
            /\ Result' = fast.out
            /\ ret' = fast.ret
            /\ copies' = fast.copies
            /\ SlowRingBuffer' = slow.rb
            /\ SlowResult' = slow.out
            /\ slowRet' = slow.ret
            /\ fault' = IF fast.fault # "none" THEN fast.fault
                        ELSE IF slow.fault # "none" THEN slow.fault
                        ELSE fault
            /\ call' = [op |-> "Read", Size |-> Size]
    /\ UNCHANGED << pc, alloc, storage, slowStorage, pairFrame >>

P_Next ==
    \/ P_Initialize
    \/ P_Destroy
    \/ P_Write
    \/ P_Read

SpecPair == P_Init /\ [][P_Next]_vars

\* ------------------------------- Graphs.cpp (src/Graphs/Graphs.cpp, 366-769)
\* Vertex is std::string; std::set and std::map keep the vertices in the order
\* of their names.  The vertices of a run are 1..MaxVertex, in that order, and
\* NOVERTEX is a name that no vertex of the graph has.
VERTEX == 1..MaxVertex
NOVERTEX == 0

\* The first vertex of a non-empty std::set<Vertex>.
First(S) == CHOOSE v \in S : \A w \in S : v <= w

\* Edges is a std::vector<Edge>; BuildAdjacencyList puts its elements into
\* sets, so that only the set of the edges matters.
AddVertex(G, name) ==
    [G EXCEPT !.Vertices = @ \cup {name}, !.Dirty = TRUE]

AddDirectedEdge(G, first, second) ==
    [AddVertex(AddVertex(G, first), second)
         EXCEPT !.Edges = @ \cup {<< first, second >>}]

AddUndirectedEdge(G, first, second) ==
    AddDirectedEdge(AddDirectedEdge(G, first, second), second, first)

Clear(G) ==
    [G EXCEPT !.Edges = {}, !.Vertices = {}, !.Neighbors = << >>,
              !.Visited = {}, !.Dirty = FALSE]

\* BuildAdjacencyList adds to the Neighbors that are there: the second
\* vertices of the edges to the set of their first vertex, and an empty set
\* for every vertex that has none.
BuildAdjacencyList(G) ==
    [G EXCEPT
        !.Neighbors =
            [v \in DOMAIN G.Neighbors \cup G.Vertices
                     \cup {e[1] : e \in G.Edges} |->
                (IF v \in DOMAIN G.Neighbors THEN G.Neighbors[v] ELSE {})
                    \cup {e[2] : e \in {d \in G.Edges : d[1] = v}}],
        !.Dirty = FALSE]

PreWalk(G) ==
    IF G.Dirty
    THEN BuildAdjacencyList([G EXCEPT !.Visited = {}])
    ELSE [G EXCEPT !.Visited = {}]

\* The callbacks of the program: ShortestDistanceCallback returns false at the
\* vertex Context->To and true at any other; PrintVertex always returns true,
\* which is WalkCallback(Name, NOVERTEX).
WalkCallback(Name, To) == Name # To

\* One invocation of the callback, as the walk records it.
Invocation(Name, Distance, To) ==
    [Name |-> Name, Distance |-> Distance, ret |-> WalkCallback(Name, To)]

RECURSIVE DfsWalkWorker(_, _, _, _, _)
RECURSIVE DfsNeighbors(_, _, _, _, _)
\* DfsWalkWorker(Name, nullptr, Callback, Distance, Context) on the walk st =
\* [Visited, trace]: the walk it leaves and the value it returns.
DfsWalkWorker(Neighbors, st, Name, Distance, To) ==
    IF Name \in st.Visited
    THEN [st |-> st, ret |-> FALSE]
    ELSE LET here == [Visited |-> st.Visited \cup {Name},
                      trace |-> Append(st.trace,
                                       Invocation(Name, Distance, To))]
         IN  IF ~WalkCallback(Name, To)
             THEN [st |-> here, ret |-> TRUE]
             ELSE IF Name \in DOMAIN Neighbors
             THEN [st |-> DfsNeighbors(Neighbors, here, Neighbors[Name],
                                       Distance + 1, To),
                   ret |-> TRUE]
             ELSE [st |-> here, ret |-> TRUE]

\* The for loop of DfsWalkWorker over the neighbors left in todo: the value
\* each call returns is dropped (line 522).
DfsNeighbors(Neighbors, st, todo, Distance, To) ==
    IF todo = {}
    THEN st
    ELSE DfsNeighbors(Neighbors,
                      DfsWalkWorker(Neighbors, st, First(todo), Distance, To).st,
                      todo \ {First(todo)}, Distance, To)

DfsWalk(G, Name, To) ==
    LET res == DfsWalkWorker(PreWalk(G).Neighbors,
                             [Visited |-> {}, trace |-> << >>],
                             Name, 0, To)
    IN  [G |-> [PreWalk(G) EXCEPT !.Visited = res.st.Visited],
         trace |-> res.st.trace, ret |-> res.ret]

RECURSIVE BfsEnqueue(_, _, _)
\* The for loop of BfsWalkWorker over the neighbors left in todo: a neighbor
\* not yet visited is marked and queued with distance Distance.
BfsEnqueue(st, todo, Distance) ==
    IF todo = {}
    THEN st
    ELSE BfsEnqueue(
             IF First(todo) \in st.Visited
             THEN st
             ELSE [st EXCEPT !.Visited = @ \cup {First(todo)},
                             !.Queue = Append(@, [Name |-> First(todo),
                                                  Distance |-> Distance])],
             todo \ {First(todo)}, Distance)

RECURSIVE BfsLoop(_, _, _)
\* The while loop of BfsWalkWorker on st = [Visited, Queue, trace], one
\* iteration per unfolding.
BfsLoop(Neighbors, st, To) ==
    IF st.Queue = << >>
    THEN st
    ELSE LET entry  == Head(st.Queue)
             popped1 == [st EXCEPT
                           !.Queue = Tail(@),
                           !.trace = Append(@, Invocation(entry.Name,
                                                          entry.Distance, To))]
         IN  IF ~WalkCallback(entry.Name, To)
             THEN popped1
             ELSE IF entry.Name \in DOMAIN Neighbors
             THEN BfsLoop(Neighbors,
                          BfsEnqueue(popped1, Neighbors[entry.Name],
                                     entry.Distance + 1),
                          To)
             ELSE BfsLoop(Neighbors, popped1, To)

\* BfsWalkWorker(Name, nullptr, Callback, Distance, Context) with the set
\* Visited: the walk it leaves and the value it returns.
BfsWalkWorker(Neighbors, Visited, Name, Distance, To) ==
    IF Name \in Visited
    THEN [Visited |-> Visited, trace |-> << >>, ret |-> FALSE]
    ELSE LET st == BfsLoop(Neighbors,
                           [Visited |-> Visited \cup {Name},
                            Queue |-> << [Name |-> Name,
                                          Distance |-> Distance] >>,
                            trace |-> << >>],
                           To)
         IN  [Visited |-> st.Visited, trace |-> st.trace,
              ret |-> Cardinality(st.Visited) > Cardinality(Visited)]

BfsWalk(G, Name, To) ==
    LET res == BfsWalkWorker(PreWalk(G).Neighbors, {}, Name, 0, To)
    IN  [G |-> [PreWalk(G) EXCEPT !.Visited = res.Visited],
         trace |-> res.trace, ret |-> res.ret]

\* What ShortestDistanceCallback leaves in Context->Distance: 0, the value
\* "ShortestDistanceContext Context{ To }" gives it, until an invocation with
\* Name = To assigns its Distance.
ContextDistance(trace, To) ==
    IF \E i \in DOMAIN trace : trace[i].Name = To
    THEN trace[CHOOSE i \in DOMAIN trace :
                   /\ trace[i].Name = To
                   /\ \A j \in DOMAIN trace : trace[j].Name = To => j <= i
               ].Distance
    ELSE 0

\* A variant of ShortestDistance that walks depth first.
ShortestDistance_DepthFirst(G, From, To) ==
    IF From = To
    THEN [G |-> G, trace |-> << >>, ret |-> 0]
    ELSE [G |-> DfsWalk(G, From, To).G,
          trace |-> DfsWalk(G, From, To).trace,
          ret |-> ContextDistance(DfsWalk(G, From, To).trace, To)]

\* ShortestDistance(From, To): the graph it leaves, the invocations of the
\* callback and the distance it returns.
ShortestDistance(G, From, To) ==
    IF From = To
    THEN [G |-> G, trace |-> << >>, ret |-> 0]
    ELSE [G |-> BfsWalk(G, From, To).G,
          trace |-> BfsWalk(G, From, To).trace,
          ret |-> ContextDistance(BfsWalk(G, From, To).trace, To)]

\* Graph g; the other programs are absent.
G_Init ==
    /\ pc = "declared"
    /\ RingBuffer = ZeroedRingBuffer
    /\ storage = NoStorage
    /\ Result = ZeroedResult
    /\ call = [op |-> "none", Size |-> 0]
    /\ ret = 0
    /\ copies = << >>
    /\ fault = "none"
    /\ alloc = NoBlocks
    /\ offered = << >>
    /\ overflowed = FALSE
    /\ accepted = << >>
    /\ delivered = << >>
    /\ fifo = << >>
    /\ NoHeap
    /\ NoTree
    /\ NoGraph
    /\ NoThreads
    /\ NoSlow

\* A run builds a graph, walks it and clears it, as main does (lines 710-769).
\* Every walk begins with PreWalk, which forgets the walk before it, and
\* BuildAdjacencyList only adds to Neighbors, whose source Edges only grows
\* until Clear: a walk after another call sees the adjacency list that the
\* walk of a freshly built graph with the same edges and vertices sees.
Walked == gcall.op \in {"DfsWalk", "BfsWalk", "ShortestDistance"}

\* A call that builds the graph invokes no callback and returns nothing; gcall
\* keeps the arguments of the walks only.
G_AddVertex ==
    /\ ~Walked
    /\ \E name \in VERTEX :
        /\ g' = AddVertex(g, name)
        /\ gcall' = [op |-> "AddVertex", From |-> NOVERTEX, To |-> NOVERTEX,
                     ret |-> 0]
    /\ callbacks' = << >>
    /\ UNCHANGED exceptGraph

G_AddDirectedEdge ==
    /\ ~Walked
    /\ \E first, second \in VERTEX :
        /\ Cardinality(AddDirectedEdge(g, first, second).Edges) <= MaxEdges
        /\ g' = AddDirectedEdge(g, first, second)
        /\ gcall' = [op |-> "AddDirectedEdge", From |-> NOVERTEX,
                     To |-> NOVERTEX, ret |-> 0]
    /\ callbacks' = << >>
    /\ UNCHANGED exceptGraph

G_AddUndirectedEdge ==
    /\ ~Walked
    /\ \E first, second \in VERTEX :
        /\ Cardinality(AddUndirectedEdge(g, first, second).Edges) <= MaxEdges
        /\ g' = AddUndirectedEdge(g, first, second)
        /\ gcall' = [op |-> "AddUndirectedEdge", From |-> NOVERTEX,
                     To |-> NOVERTEX, ret |-> 0]
    /\ callbacks' = << >>
    /\ UNCHANGED exceptGraph

G_Clear ==
    /\ g' = Clear(g)
    /\ gcall' = [op |-> "Clear", From |-> NOVERTEX, To |-> NOVERTEX, ret |-> 0]
    /\ callbacks' = << >>
    /\ UNCHANGED exceptGraph

\* g.DfsWalk(Name, nullptr, Callback, Context) with a callback that stops at
\* To, or never (To = NOVERTEX).
G_DfsWalk ==
    /\ ~Walked
    /\ \E Name \in VERTEX : \E To \in VERTEX \cup {NOVERTEX} :
        LET res == DfsWalk(g, Name, To) IN
        /\ g' = res.G
        /\ callbacks' = res.trace
        /\ gcall' = [op |-> "DfsWalk", From |-> Name, To |-> To,
                     ret |-> IF res.ret THEN 1 ELSE 0]
    /\ UNCHANGED exceptGraph

G_BfsWalk ==
    /\ ~Walked
    /\ \E Name \in VERTEX : \E To \in VERTEX \cup {NOVERTEX} :
        LET res == BfsWalk(g, Name, To) IN
        /\ g' = res.G
        /\ callbacks' = res.trace
        /\ gcall' = [op |-> "BfsWalk", From |-> Name, To |-> To,
                     ret |-> IF res.ret THEN 1 ELSE 0]
    /\ UNCHANGED exceptGraph

G_ShortestDistance ==
    /\ ~Walked
    /\ \E From, To \in VERTEX :
        LET res == ShortestDistance(g, From, To) IN
        /\ g' = res.G
        /\ callbacks' = res.trace
        /\ gcall' = [op |-> "ShortestDistance", From |-> From, To |-> To,
                     ret |-> res.ret]
    /\ UNCHANGED exceptGraph

G_Next ==
    \/ G_AddVertex
    \/ G_AddDirectedEdge
    \/ G_AddUndirectedEdge
    \/ G_Clear
    \/ G_DfsWalk
    \/ G_BfsWalk
    \/ G_ShortestDistance

SpecGraph == G_Init /\ [][G_Next]_vars

\* ------------------ one writing and one reading thread (lines 1011-1114)
\* WriteRingBuffer and ReadRingBuffer of the last variant, statement by
\* statement, as two threads run them on one RINGBUFFER with sequentially
\* consistent memory: a step of a thread is the sampling of the cursors into
\* its locals, one memcpy, or the += of its own cursor.

\* The locals of WriteRingBuffer(RingBuffer, Data, Size) once it has passed
\* lines 1018-1022.
WriteRingBuffer_Sample(rb, Data, Size) ==
    [pc |-> "sample", Data |-> Data, Size |-> Size,
     Index |-> Clamp(rb.WriteIndex, rb.Capacity),
     Slack |-> SIZE_T(rb.Capacity - Clamp(rb.WriteIndex, rb.Capacity)),
     Space |-> FreeSpaceRingBuffer(rb),
     ToWrite |-> Min(FreeSpaceRingBuffer(rb), Size)]

\* A variant of the order of the statements of WriteRingBuffer that advances
\* WriteIndex before it copies.
WriteRingBuffer_After_AdvanceFirst(step, loc) ==
    CASE step = "sample"  -> "advance"
      [] step = "advance" -> "copy1"
      [] step = "copy1"   -> IF loc.ToWrite <= loc.Slack
                             THEN "idle" ELSE "copy2"
      [] step = "copy2"   -> "idle"

\* The order of the statements of WriteRingBuffer: what follows each of them.
WriteRingBuffer_After(step, loc) ==
    CASE step = "sample"  -> "copy1"
      [] step = "copy1"   -> IF loc.ToWrite <= loc.Slack
                             THEN "advance" ELSE "copy2"
      [] step = "copy2"   -> "advance"
      [] step = "advance" -> "idle"

\* The locals of ReadRingBuffer(RingBuffer, Data, Size) once it has passed
\* lines 1079-1083.
ReadRingBuffer_Sample(rb, Size) ==
    [pc |-> "sample", Size |-> Size,
     Index |-> Clamp(rb.ReadIndex, rb.Capacity),
     Slack |-> SIZE_T(rb.Capacity - Clamp(rb.ReadIndex, rb.Capacity)),
     Count |-> CountRingBuffer(rb),
     ToRead |-> Min(CountRingBuffer(rb), Size)]

\* The order of the statements of ReadRingBuffer.
ReadRingBuffer_After(step, loc) ==
    CASE step = "sample"  -> "copy1"
      [] step = "copy1"   -> IF loc.ToRead <= loc.Slack
                             THEN "advance" ELSE "copy2"
      [] step = "copy2"   -> "advance"
      [] step = "advance" -> "idle"

\* A live buffer that InitializeRingBuffer has just set up, and two threads
\* that are in no call.
S_Init ==
    /\ NoHeap
    /\ NoTree
    /\ NoGraph
    /\ NoSlow
    /\ NoThreads
    /\ pc = "live"
    /\ \E Capacity \in 1..MaxCapacity :
        /\ RingBuffer = [Buffer |-> BLOCK, Capacity |-> Capacity,
                         ReadIndex |-> 0, WriteIndex |-> 0]
        /\ storage \in [0..(Capacity - 1) -> BYTE]
    /\ Result = ZeroedResult
    /\ call = [op |-> "none", Size |-> 0]
    /\ ret = 0
    /\ copies = << >>
    /\ fault = "none"
    /\ alloc = Malloc(NoBlocks)
    /\ offered = << >>
    /\ overflowed = FALSE
    /\ accepted = << >>
    /\ delivered = << >>
    /\ fifo = << >>

\* What no step of a thread changes.
threadFrame == << pc, copies, fault, alloc, offered, overflowed, fifo,
                 pending, heapvars, treevars, graphvars, slowvars >>

\* The writer has done the statement step of its call: it goes on to the next
\* one, or returns ToWrite after the last.
WriterDid(step, loc) ==
    IF WriteRingBuffer_After(step, loc) = "idle"
    THEN /\ writer' = IdleWriter
         /\ call' = [op |-> "Write", Size |-> loc.Size]
         /\ ret' = loc.ToWrite
    ELSE /\ writer' = [loc EXCEPT !.pc = WriteRingBuffer_After(step, loc)]
         /\ UNCHANGED << call, ret >>

\* The reader has done the statement step of its call: it goes on, or returns
\* ToRead, and the caller has the first ToRead bytes of its array.
ReaderDid(step, loc, out) ==
    IF ReadRingBuffer_After(step, loc) = "idle"
    THEN /\ reader' = IdleReader
         /\ call' = [op |-> "Read", Size |-> loc.Size]
         /\ ret' = loc.ToRead
         /\ delivered' = delivered \o Take(out, loc.ToRead)
    ELSE /\ reader' = [loc EXCEPT !.pc = ReadRingBuffer_After(step, loc)]
         /\ UNCHANGED << call, ret, delivered >>

\* The writer enters WriteRingBuffer and runs lines 1013-1027: it returns 0
\* at once, or has its locals; for as long as at most MaxCursor bytes have
\* been accepted.
S_WriteSample ==
    /\ writer.pc = "idle"
    /\ \E Size \in 0..MaxSize : \E Data \in [1..Size -> BYTE] :
        LET loc == WriteRingBuffer_Sample(RingBuffer, Data, Size) IN
        /\ Len(accepted) + loc.ToWrite <= MaxCursor
        /\ IF RingBuffer.Capacity = 0 \/ loc.ToWrite = 0
           THEN /\ writer' = IdleWriter
                /\ call' = [op |-> "Write", Size |-> Size]
                /\ ret' = 0
           ELSE WriterDid("sample", loc)
    /\ UNCHANGED << RingBuffer, storage, Result, accepted, delivered, reader,
                    threadFrame >>

\* The first, or only, memcpy of the write (lines 1031-1033, 1041-1043).
S_WriteCopy1 ==
    /\ writer.pc = "copy1"
    /\ storage' = MemcpyToBuffer(storage, writer.Index, writer.Data, 0,
                                 Min(writer.ToWrite, writer.Slack))
    /\ WriterDid("copy1", writer)
    /\ UNCHANGED << RingBuffer, Result, accepted, delivered, reader,
                    threadFrame >>

\* The second memcpy of a split write (lines 1045-1047).
S_WriteCopy2 ==
    /\ writer.pc = "copy2"
    /\ storage' = MemcpyToBuffer(storage, 0, writer.Data, writer.Slack,
                                 SIZE_T(writer.ToWrite - writer.Slack))
    /\ WriterDid("copy2", writer)
    /\ UNCHANGED << RingBuffer, Result, accepted, delivered, reader,
                    threadFrame >>

\* RingBuffer->WriteIndex += ToWrite (line 1050): from here on the reader
\* counts the bytes of this write.
S_WriteAdvance ==
    /\ writer.pc = "advance"
    /\ RingBuffer' = [RingBuffer EXCEPT
                        !.WriteIndex = SIZE_T(@ + writer.ToWrite)]
    /\ accepted' = accepted \o Take(writer.Data, writer.ToWrite)
    /\ WriterDid("advance", writer)
    /\ UNCHANGED << storage, Result, delivered, reader, threadFrame >>

\* The reader enters ReadRingBuffer and runs lines 1074-1088.
S_ReadSample ==
    /\ reader.pc = "idle"
    /\ \E Size \in 0..MaxSize :
        LET loc == ReadRingBuffer_Sample(RingBuffer, Size) IN
        IF RingBuffer.Capacity = 0 \/ loc.ToRead = 0
        THEN /\ reader' = IdleReader
             /\ call' = [op |-> "Read", Size |-> Size]
             /\ ret' = 0
             /\ UNCHANGED delivered
        ELSE ReaderDid("sample", loc, Result)
    /\ UNCHANGED << RingBuffer, storage, Result, accepted, writer,
                    threadFrame >>

\* The first, or only, memcpy of the read (lines 1092-1094, 1102-1104).
S_ReadCopy1 ==
    /\ reader.pc = "copy1"
    /\ Result' = MemcpyFromBuffer(Result, 0, storage, reader.Index,
                                  Min(reader.ToRead, reader.Slack))
    /\ ReaderDid("copy1", reader, Result')
    /\ UNCHANGED << RingBuffer, storage, accepted, writer, threadFrame >>

\* The second memcpy of a split read (lines 1106-1108).
S_ReadCopy2 ==
    /\ reader.pc = "copy2"
    /\ Result' = MemcpyFromBuffer(Result, reader.Slack, storage, 0,
                                  SIZE_T(reader.ToRead - reader.Slack))
    /\ ReaderDid("copy2", reader, Result')
    /\ UNCHANGED << RingBuffer, storage, accepted, writer, threadFrame >>

\* RingBuffer->ReadIndex += ToRead (line 1111): from here on the writer
\* counts the room of this read.
S_ReadAdvance ==
    /\ reader.pc = "advance"
    /\ RingBuffer' = [RingBuffer EXCEPT
                        !.ReadIndex = SIZE_T(@ + reader.ToRead)]
    /\ ReaderDid("advance", reader, Result)
    /\ UNCHANGED << storage, Result, accepted, writer, threadFrame >>

S_Next ==
    \/ S_WriteSample
    \/ S_WriteCopy1
    \/ S_WriteCopy2
    \/ S_WriteAdvance
    \/ S_ReadSample
    \/ S_ReadCopy1
    \/ S_ReadCopy2
    \/ S_ReadAdvance

SpecSPSC == S_Init /\ [][S_Next]_vars

\* ------------- a producer and a consumer in turn (main, lines 1140-1175)
\* A producer that has Data to get through the buffer and offers what is left
\* of it to WriteRingBuffer again and again, and a consumer that calls
\* ReadRingBuffer again and again, as main does between its writes.  The
\* calls do not overlap.  offered is all the producer has to send.
L_Init ==
    /\ NoHeap
    /\ NoTree
    /\ NoGraph
    /\ NoSlow
    /\ writer = IdleWriter
    /\ reader = IdleReader
    /\ pc = "live"
    /\ \E Capacity \in 1..MaxCapacity :
        /\ RingBuffer = [Buffer |-> BLOCK, Capacity |-> Capacity,
                         ReadIndex |-> 0, WriteIndex |-> 0]
        /\ storage \in [0..(Capacity - 1) -> BYTE]
    /\ \E Size \in 0..MaxCursor : pending \in [1..Size -> BYTE]
    /\ offered = pending
    /\ Result = ZeroedResult
    /\ call = [op |-> "none", Size |-> 0]
    /\ ret = 0
    /\ copies = << >>
    /\ fault = "none"
    /\ alloc = Malloc(NoBlocks)
    /\ overflowed = FALSE
    /\ accepted = << >>
    /\ delivered = << >>
    /\ fifo = << >>

\* What neither of the two changes.
turnFrame == << pc, alloc, offered, overflowed, fifo, writer, reader,
               heapvars, treevars, graphvars, slowvars >>

\* The producer offers all it has left and keeps what was not accepted.
L_Produce ==
    /\ pending # << >>
    /\ LET res == WriteRingBuffer(RingBuffer, storage, Result, pending,
                                  Len(pending)) IN
        /\ RingBuffer' = res.rb
        /\ storage' = res.mem
        /\ ret' = res.ret
        /\ copies' = res.copies
        /\ fault' = IF res.fault = "none" THEN fault ELSE res.fault
        /\ call' = [op |-> "Write", Size |-> Len(pending)]
        /\ accepted' = accepted \o Take(pending, res.ret)
        /\ pending' = SubSeq(pending, res.ret + 1, Len(pending))
    /\ UNCHANGED << Result, delivered, turnFrame >>

\* The consumer asks for Size >= 1 bytes.
L_Consume ==
    /\ \E Size \in 1..MaxSize :
        LET res == ReadRingBuffer(RingBuffer, storage, Result, Size) IN
        /\ RingBuffer' = res.rb
        /\ Result' = res.out
        /\ ret' = res.ret
        /\ copies' = res.copies
        /\ fault' = IF res.fault = "none" THEN fault ELSE res.fault
        /\ call' = [op |-> "Read", Size |-> Size]
        /\ delivered' = delivered \o Take(res.out, res.ret)
    /\ UNCHANGED << storage, accepted, pending, turnFrame >>

L_Next ==
    \/ L_Produce
    \/ L_Consume

\* Both keep running: neither is left waiting for ever while it has a call to
\* make that changes the state.
SpecProgress ==
    /\ L_Init
    /\ [][L_Next]_vars
    /\ WF_vars(L_Produce)
    /\ WF_vars(L_Consume)

\* ------------------------------------------------------------------ claims
IsPrefix(s, t) == Len(s) <= Len(t) /\ SubSeq(t, 1, Len(s)) = s

\* The calls that move bytes.
Writes == {"Write", "WriteByte"}
Reads  == {"Read", "ReadByte"}

\* writeCursor - readCursor and what is left of the capacity, as integers.
Occupancy == RingBuffer.WriteIndex - RingBuffer.ReadIndex
Room      == RingBuffer.Capacity - Occupancy

\* C1: in every state reached from InitializeRingBuffer by writes and reads,
\* 0 <= Occupancy <= Capacity and Occupancy + FreeSpace = Capacity, where
\* Occupancy is writeCursor - readCursor.
C1_OccupancyInvariant ==
    Usable =>
        /\ 0 <= Occupancy
        /\ Occupancy <= RingBuffer.Capacity
        /\ CountRingBuffer(RingBuffer) = Occupancy
        /\ CountRingBuffer(RingBuffer) + FreeSpaceRingBuffer(RingBuffer)
              = RingBuffer.Capacity

\* A full buffer whose cursors have both moved: the last write wrapped.
C1_Witness ==
    /\ pc = "live"
    /\ call.op \in Writes
    /\ RingBuffer.Capacity > 1
    /\ RingBuffer.ReadIndex > 0
    /\ Occupancy = RingBuffer.Capacity

\* C2: as long as no write is larger than the free space, the bytes read
\* are, in order, a prefix of the bytes written, and they are all of them
\* once the buffer is empty.
C2_FifoFidelity ==
    (Usable /\ ~overflowed) =>
        /\ IsPrefix(delivered, offered)
        /\ IsEmptyRingBuffer(RingBuffer) => delivered = offered

\* Bytes of both values went through a buffer smaller than the stream and
\* came out, with no write ever larger than the free space.
C2_Witness ==
    /\ pc = "live"
    /\ ~overflowed
    /\ call.op \in Reads
    /\ Len(delivered) > RingBuffer.Capacity
    /\ delivered = offered
    /\ \E i, j \in DOMAIN delivered : delivered[i] # delivered[j]

\* C3: every call returns what the same call returns on a bounded queue of
\* the same capacity that has no wraparound, and every read delivers the
\* bytes that queue delivers; also when the copy is split.
C3_Wraparound ==
    [][ (Usable /\ pc' = pc /\ RingBuffer.Capacity >= 1)
        => /\ call'.op \in Writes => ret' = Len(fifo') - Len(fifo)
           /\ call'.op \in Reads =>
                /\ ret' = Len(fifo) - Len(fifo')
                /\ Take(Result', ret') = Take(fifo, ret') ]_vars

\* A read of two bytes that took the last byte of the block and the first.
C3_Witness ==
    /\ pc = "live"
    /\ call.op = "Read"
    /\ Len(copies) = 2
    /\ ret = 2
    /\ copies[1].at = RingBuffer.Capacity - 1
    /\ copies[2].at = 0

\* C4: Write(data, size) returns min(size, FreeSpace) and advances
\* writeCursor by that amount; when size > FreeSpace it returns FreeSpace
\* and the buffer is full afterwards.
C4_WriteSaturates ==
    [][ (Usable /\ pc' = pc /\ call'.op = "Write")
        => /\ ret' = Min(call'.Size, Room)
           /\ RingBuffer'.WriteIndex = RingBuffer.WriteIndex + ret'
           /\ call'.Size > Room =>
                /\ ret' = Room
                /\ IsFullRingBuffer(RingBuffer')
                /\ RingBuffer'.WriteIndex - RingBuffer'.ReadIndex
                      = RingBuffer'.Capacity ]_vars

\* A write that was cut short: some bytes went in, not all.
C4_Witness ==
    /\ pc = "live"
    /\ call.op = "Write"
    /\ 0 < ret
    /\ ret < call.Size
    /\ Occupancy = RingBuffer.Capacity

\* C5: Read(out, size) returns min(size, Occupancy) and advances readCursor
\* by that amount; when size > Occupancy it returns Occupancy and the buffer
\* is empty afterwards.
C5_ReadSaturates ==
    [][ (Usable /\ pc' = pc /\ call'.op = "Read")
        => /\ ret' = Min(call'.Size, Occupancy)
           /\ RingBuffer'.ReadIndex = RingBuffer.ReadIndex + ret'
           /\ call'.Size > Occupancy =>
                /\ ret' = Occupancy
                /\ IsEmptyRingBuffer(RingBuffer')
                /\ RingBuffer'.WriteIndex = RingBuffer'.ReadIndex ]_vars

\* A read that was cut short: some bytes came out, not all that were asked.
C5_Witness ==
    /\ pc = "live"
    /\ call.op = "Read"
    /\ 0 < ret
    /\ ret < call.Size
    /\ Occupancy = 0

\* C6: once a write was cut short, the bytes read back are still the bytes
\* the writes reported as written (data[0..n-1] of each), in order: the
\* tail is dropped, nothing buffered is overwritten or reordered.
C6_ShortWritePrefix ==
    (Usable /\ overflowed) =>
        /\ IsPrefix(delivered, accepted)
        /\ Len(accepted) - Len(delivered) = Occupancy
        /\ IsEmptyRingBuffer(RingBuffer) => delivered = accepted

\* After a write larger than the free space the buffer was read empty, and
\* more bytes than it holds have come out.
C6_Witness ==
    /\ pc = "live"
    /\ overflowed
    /\ call.op \in Reads
    /\ Occupancy = 0
    /\ Len(delivered) > RingBuffer.Capacity
    /\ \E i, j \in DOMAIN delivered : delivered[i] # delivered[j]

\* C7: on a buffer initialized with capacity 0 every write and read returns
\* 0, changes neither cursor, and the buffer is empty and full at once
\* before and after.
C7_ZeroCapacity ==
    [][ (pc = "live" /\ RingBuffer.Capacity = 0
            /\ call'.op \in Writes \cup Reads)
        => /\ pc' = "live"
           /\ ret' = 0
           /\ RingBuffer'.ReadIndex = RingBuffer.ReadIndex
           /\ RingBuffer'.WriteIndex = RingBuffer.WriteIndex
           /\ IsEmptyRingBuffer(RingBuffer) /\ IsFullRingBuffer(RingBuffer)
           /\ IsEmptyRingBuffer(RingBuffer') /\ IsFullRingBuffer(RingBuffer')
      ]_vars

\* WriteByteRingBuffer has just been called on a buffer of capacity 0.
C7_Witness ==
    /\ pc = "live"
    /\ RingBuffer.Capacity = 0
    /\ call.op = "WriteByte"

\* C8 (as claimed): no call divides by a capacity of 0 or touches an offset
\* outside the block, and every call returns, in every variant.  The first
\* variant is checked under SpecV1.
C8_Totality == fault = "none" /\ pc # "crashed"

\* C9: on an empty buffer Read and ReadByte return 0 and leave both
\* cursors, the block and the caller's array as they were.
C9_IdempotentEmptiness ==
    [][ (Usable /\ Occupancy = 0 /\ call'.op \in Reads)
        => /\ pc' = pc
           /\ ret' = 0
           /\ RingBuffer' = RingBuffer
           /\ storage' = storage
           /\ Result' = Result ]_vars

\* ReadByteRingBuffer found the buffer empty, after bytes had gone through
\* it and into the caller's array.
C9_Witness ==
    /\ pc = "live"
    /\ call.op = "ReadByte"
    /\ ret = 0
    /\ RingBuffer.Capacity > 0
    /\ RingBuffer.ReadIndex > 0
    /\ Occupancy = 0
    /\ Result # ZeroedResult

\* C10: WriteByte(b) on a full buffer returns false and leaves the cursors
\* and the block as they were; otherwise it stores b at
\* storage[writeCursor mod capacity], adds 1 to writeCursor and returns true.
C10_WriteByte ==
    [][ (Usable /\ call'.op = "WriteByte")
        => IF Occupancy = RingBuffer.Capacity
           THEN /\ pc' = pc
                /\ ret' = 0
                /\ RingBuffer' = RingBuffer
                /\ storage' = storage
           ELSE /\ pc' = pc
                /\ ret' = 1
                /\ RingBuffer' =
                      [RingBuffer EXCEPT !.WriteIndex = RingBuffer.WriteIndex + 1]
                /\ \E b \in BYTE :
                      /\ accepted' = Append(accepted, b)
                      /\ storage' =
                            [storage EXCEPT
                                ![Clamp(RingBuffer.WriteIndex,
                                        RingBuffer.Capacity)] = b] ]_vars

\* WriteByteRingBuffer was refused by a full buffer that holds bytes.
C10_Witness ==
    /\ pc = "live"
    /\ call.op = "WriteByte"
    /\ ret = 0
    /\ RingBuffer.Capacity > 0
    /\ Occupancy = RingBuffer.Capacity

\* C11: Create(0) succeeds: no storage is allocated, the buffer is the usable
\* zero-capacity one with both cursors 0, and the value handed to the caller
\* differs from the one a failed Create(capacity > 0) hands back.
C11_CreateZeroSucceeds ==
    (call.op = "Initialize" /\ call.Size = 0) =>
        /\ pc = "live"
        /\ RingBuffer = ZeroedRingBuffer
        /\ alloc.live = {}
        /\ ret # InitializeRingBuffer(RingBuffer, 1, FALSE).ret

\* C12: when malloc fails in Create(capacity > 0), Create returns the failure
\* indicator 0 and leaves the struct fully zeroed with nothing allocated; at
\* no time after a Create does the struct have a capacity without storage.
\* (InitializeRingBuffer reads and writes the one struct it is handed.)
C12_FailedCreateZeroed ==
    /\ (call.op = "Initialize" /\ pc = "failed") =>
           /\ ret = 0
           /\ RingBuffer = ZeroedRingBuffer
           /\ storage = NoStorage
           /\ alloc.live = {}
    /\ (Usable /\ RingBuffer.Capacity > 0) =>
           /\ RingBuffer.Buffer \in alloc.live
           /\ DOMAIN storage = 0..(RingBuffer.Capacity - 1)

C12_Witness ==
    /\ call.op = "Initialize"
    /\ call.Size > 0
    /\ pc = "failed"

\* C13: right after a successful Create(capacity) both cursors are 0, the
\* capacity is the one asked for, the buffer is empty and, for capacity > 0,
\* not full with FreeSpace() = capacity, whatever the struct held before.
C13_FreshBuffer ==
    (call.op = "Initialize" /\ pc = "live") =>
        /\ RingBuffer.ReadIndex = 0
        /\ RingBuffer.WriteIndex = 0
        /\ RingBuffer.Capacity = call.Size
        /\ IsEmptyRingBuffer(RingBuffer)
        /\ call.Size > 0 =>
               /\ ~IsFullRingBuffer(RingBuffer)
               /\ FreeSpaceRingBuffer(RingBuffer) = call.Size

\* A Create(capacity > 0) that got its block; Init hands the first Create
\* every garbage struct, a later one the struct Destroy left.
C13_Witness ==
    /\ call.op = "Initialize"
    /\ pc = "live"
    /\ call.Size > 0
    /\ RingBuffer.Buffer = BLOCK
    /\ FreeSpaceRingBuffer(RingBuffer) = call.Size
    /\ alloc = Malloc(NoBlocks)

\* C14: over a lifecycle Create(capacity > 0) ... Destroy the storage is
\* allocated once, by Create, and released once, by Destroy: while the buffer
\* is live one block of Capacity bytes is held (one malloc, no free), after
\* Destroy one malloc and one free have happened, nothing is held and both
\* cursors are 0; no Write, WriteByte, Read or ReadByte changes the
\* allocator, the pointer, the capacity or the length of the storage.
C14_ResourceDiscipline ==
    [][ /\ (pc' = "live" /\ RingBuffer'.Capacity > 0) =>
               /\ alloc' = Malloc(NoBlocks)
               /\ RingBuffer'.Buffer = BLOCK
               /\ DOMAIN storage' = 0..(RingBuffer'.Capacity - 1)
        /\ (call'.op = "Destroy" /\ RingBuffer.Capacity > 0) =>
               /\ alloc'.live = {}
               /\ alloc'.allocs = 1
               /\ alloc'.frees = 1
               /\ storage' = NoStorage
        /\ call'.op = "Destroy" =>
               /\ RingBuffer'.ReadIndex = 0
               /\ RingBuffer'.WriteIndex = 0
               /\ RingBuffer'.Buffer = NULL
               /\ alloc'.live = {}
        /\ call'.op \in Writes \cup Reads =>
               /\ alloc' = alloc
               /\ RingBuffer'.Buffer = RingBuffer.Buffer
               /\ RingBuffer'.Capacity = RingBuffer.Capacity
               /\ DOMAIN storage' = DOMAIN storage
      ]_vars

\* Destroy has released the block that Create(capacity > 0) allocated.
C14_Witness ==
    /\ call.op = "Destroy"
    /\ pc = "destroyed"
    /\ alloc.allocs = 1
    /\ alloc.frees = 1
    /\ alloc.live = {}

\* C15: Destroy of a buffer whose storage the caller supplied does not
\* release the caller's memory: it runs into no undefined behaviour, returns,
\* leaves the caller's bytes as they were and resets the cursors to 0.
C15_DestroyKeepsCallerStorage ==
    [][ (call'.op = "Destroy" /\ RingBuffer.Buffer = CALLER) =>
            /\ fault' = "none"
            /\ pc' = "destroyed"
            /\ storage' = storage
            /\ RingBuffer'.ReadIndex = 0
            /\ RingBuffer'.WriteIndex = 0
      ]_vars

\* C16: between Create and Destroy no Write or Read step makes a cursor
\* smaller, and readCursor <= writeCursor holds after every step.
C16_CursorsMonotone ==
    [][ call'.op \in Writes \cup Reads =>
            /\ RingBuffer'.WriteIndex >= RingBuffer.WriteIndex
            /\ RingBuffer'.ReadIndex >= RingBuffer.ReadIndex
            /\ RingBuffer'.ReadIndex <= RingBuffer'.WriteIndex
      ]_vars

\* C17: Write(data, 0) and Read(out, 0) return 0 in every state and change
\* neither cursor, nor the storage, nor the caller's buffer; they copy nothing.
C17_ZeroSizeNoOp ==
    [][ (call'.op \in {"Write", "Read"} /\ call'.Size = 0) =>
            /\ ret' = 0
            /\ RingBuffer' = RingBuffer
            /\ storage' = storage
            /\ Result' = Result
            /\ copies' = << >>
            /\ pc' = pc
            /\ fault' = fault
      ]_vars

\* Read(out, 0) has returned on a buffer that holds unread bytes.
C17_Witness ==
    /\ call.op = "Read"
    /\ call.Size = 0
    /\ RingBuffer.Capacity > 0
    /\ CountRingBuffer(RingBuffer) > 0
    /\ ret = 0

\* C18: for capacity > 0 IsEmpty() and IsFull() are never both true, and the
\* two kinds of state in which both cursors address the same storage position
\* are told apart: the buffer that holds nothing is empty with occupancy 0,
\* the buffer that holds Capacity bytes is full with occupancy Capacity.
C18_NoFullEmptyAmbiguity ==
    (pc = "live" /\ RingBuffer.Capacity > 0) =>
        /\ ~(IsEmptyRingBuffer(RingBuffer) /\ IsFullRingBuffer(RingBuffer))
        /\ IsEmptyRingBuffer(RingBuffer) <=> fifo = << >>
        /\ IsFullRingBuffer(RingBuffer) <=> Len(fifo) = RingBuffer.Capacity
        /\ (RingBuffer.ReadIndex % RingBuffer.Capacity
              = RingBuffer.WriteIndex % RingBuffer.Capacity) =>
               \/ /\ IsEmptyRingBuffer(RingBuffer)
                  /\ CountRingBuffer(RingBuffer) = 0
                  /\ fifo = << >>
               \/ /\ IsFullRingBuffer(RingBuffer)
                  /\ CountRingBuffer(RingBuffer) = RingBuffer.Capacity
                  /\ Len(fifo) = RingBuffer.Capacity

\* A full buffer whose cursors address the same position, not the first one.
C18_Witness ==
    /\ pc = "live"
    /\ RingBuffer.Capacity > 1
    /\ RingBuffer.ReadIndex % RingBuffer.Capacity = 1
    /\ RingBuffer.WriteIndex % RingBuffer.Capacity = 1
    /\ IsFullRingBuffer(RingBuffer)
    /\ ~IsEmptyRingBuffer(RingBuffer)

\* C19: with SizeBits-bit cursors CountRingBuffer, the difference of the
\* cursors modulo SIZE_MODULUS, is the number of bytes written and not yet
\* read, and FreeSpaceRingBuffer the capacity less that number, also after
\* writeCursor has passed SIZE_MODULUS - 1 and readCursor has not.
C19_OccupancyAcrossOverflow ==
    pc = "live" =>
        /\ CountRingBuffer(RingBuffer) = Len(fifo)
        /\ CountRingBuffer(RingBuffer) = Len(accepted) - Len(delivered)
        /\ FreeSpaceRingBuffer(RingBuffer) = RingBuffer.Capacity - Len(fifo)

\* writeCursor has overflowed, readCursor has not, and bytes are buffered.
C19_Witness ==
    /\ pc = "live"
    /\ RingBuffer.WriteIndex < RingBuffer.ReadIndex
    /\ Len(fifo) > 0
    /\ CountRingBuffer(RingBuffer) = Len(fifo)

\* The keys in s, from the first to the last, never increase.
NonIncreasing(s) == \A i \in 1..(Len(s) - 1) : s[i] >= s[i + 1]

\* C20: the keys popped since the last push come out in non-increasing
\* order; together with the keys still stored they are exactly the keys that
\* were stored after that push, so that popping until the heap is empty
\* yields exactly the pushed multiset; and the key a successful MaxHeap_Pop
\* returns is a maximum of what was stored: no key left in the heap exceeds it.
C20_PopOrder ==
    hcall.op # "none" =>
        /\ NonIncreasing(popped)
        /\ \A k \in KEY :
               Tally(popped)[k] + Tally(Stored(MaxHeap))[k] = batch[k]
        /\ MaxHeap_IsEmpty(MaxHeap) => Tally(popped) = batch
        /\ (hcall.op = "Pop" /\ hcall.ret) =>
               /\ Key = popped[Len(popped)]
               /\ \A i \in 1..MaxHeap_Count(MaxHeap) : MaxHeap[i] <= Key
        /\ MaxHeap_Count(MaxHeap) <= MaxHeap_Capacity(MaxHeap)

\* A heap that was filled to its capacity of HeapCapacity keys, not pushed in
\* decreasing order, has been popped until it was empty.
C20_Witness ==
    /\ hcall.op = "Pop"
    /\ hcall.ret
    /\ MaxHeap_Capacity(MaxHeap) = HeapCapacity
    /\ MaxHeap_IsEmpty(MaxHeap)
    /\ Len(popped) = HeapCapacity
    /\ popped[1] > popped[HeapCapacity]
    /\ popped[2] > popped[3]

\* The Capacity the array was declared with: it has Capacity + 1 elements.
Declared(heap) == Cardinality(DOMAIN heap) - 1

\* C21: after MaxHeap_Init(c) and any Push/Pop/Peek, 0 <= Count <= c,
\* MaxHeap_IsEmpty <=> Count = 0, MaxHeap_IsFull <=> Count = c,
\* MaxHeap_Capacity = c; a successful Push raises Count by exactly 1, a
\* successful Pop lowers it by exactly 1, and no other call changes it.
C21_HeapCount ==
    [][ hcall'.op # "none" =>
            /\ MaxHeap_Count(MaxHeap') >= 0
            /\ MaxHeap_Count(MaxHeap') <= Declared(MaxHeap')
            /\ MaxHeap_IsEmpty(MaxHeap') <=> MaxHeap_Count(MaxHeap') = 0
            /\ MaxHeap_IsFull(MaxHeap')
                   <=> MaxHeap_Count(MaxHeap') = Declared(MaxHeap')
            /\ MaxHeap_Capacity(MaxHeap') = Declared(MaxHeap')
            /\ hcall'.op = "Init" => MaxHeap_Count(MaxHeap') = 0
            /\ (hcall'.op = "Push" /\ hcall'.ret) =>
                   MaxHeap_Count(MaxHeap') = MaxHeap_Count(MaxHeap) + 1
            /\ (hcall'.op = "Pop" /\ hcall'.ret) =>
                   MaxHeap_Count(MaxHeap') = MaxHeap_Count(MaxHeap) - 1
            /\ (hcall'.op \in {"Push", "Pop", "Peek"}
                  /\ (hcall'.op = "Peek" \/ ~hcall'.ret)) =>
                   MaxHeap_Count(MaxHeap') = MaxHeap_Count(MaxHeap)
      ]_vars

\* A Pop has taken a key from a heap that was full.
C21_Witness ==
    /\ hcall.op = "Pop"
    /\ hcall.ret
    /\ MaxHeap_Capacity(MaxHeap) = HeapCapacity
    /\ MaxHeap_Count(MaxHeap) = HeapCapacity - 1

\* C22: MaxHeap_Push fails exactly on a full heap and then changes nothing in
\* the array; MaxHeap_Pop and MaxHeap_Peek fail exactly on an empty heap, set
\* the output key to 0 and change nothing; a successful MaxHeap_Peek changes
\* nothing in the array and yields the key the next MaxHeap_Pop yields.
C22_HeapFailures ==
    [][ /\ hcall'.op = "Push" =>
               /\ hcall'.ret <=> ~MaxHeap_IsFull(MaxHeap)
               /\ ~hcall'.ret => (MaxHeap' = MaxHeap /\ Key' = Key)
        /\ hcall'.op \in {"Pop", "Peek"} =>
               /\ hcall'.ret <=> ~MaxHeap_IsEmpty(MaxHeap)
               /\ ~hcall'.ret => (MaxHeap' = MaxHeap /\ Key' = 0)
        /\ (hcall'.op = "Peek" /\ hcall'.ret) =>
               /\ MaxHeap' = MaxHeap
               /\ Key' = MaxHeap_Pop(MaxHeap).Key
               /\ \A i \in 1..MaxHeap_Count(MaxHeap) : MaxHeap[i] <= Key'
      ]_vars

\* A Push has been refused by a heap that holds HeapCapacity keys.
C22_Witness ==
    /\ hcall.op = "Push"
    /\ ~hcall.ret
    /\ MaxHeap_Count(MaxHeap) = HeapCapacity
    /\ hcall.Key > MaxHeap[HeapCapacity]

\* C23: after any sequence of Insert calls on the root, Find(root, k)
\* returns a node whose key is k for the root key and for every key Insert
\* returned a node for, and nullptr for every other key; Insert of a key that
\* is present returns the node that holds it and leaves the tree as it was.
C23_InsertFind ==
    [][ tcall'.op # "none" =>
            /\ \A k \in inserted' :
                   /\ Find(Nodes', ROOT, k) # NULLNODE
                   /\ Nodes'[Find(Nodes', ROOT, k)].Key = k
            /\ \A k \in TREEKEY \ inserted' :
                   Find(Nodes', ROOT, k) = NULLNODE
            /\ tcall'.op = "Find" =>
                   (tcall'.ret # NULLNODE <=> tcall'.Key \in inserted)
            /\ (tcall'.op = "Insert" /\ tcall'.Key \in inserted) =>
                   /\ Nodes' = Nodes
                   /\ tcall'.ret = Find(Nodes, ROOT, tcall'.Key)
                   /\ tcall'.ret # NULLNODE
      ]_vars

\* Insert has returned a node that is neither the root nor new: the key was
\* there, two levels below the root.
C23_Witness ==
    /\ tcall.op = "Insert"
    /\ tcall.ret # NULLNODE
    /\ tcall.ret # ROOT
    /\ tcall.ret < Len(Nodes)
    /\ Nodes[tcall.ret].Key = tcall.Key
    /\ Nodes[ROOT].Left # tcall.ret
    /\ Nodes[ROOT].Right # tcall.ret

RECURSIVE KeysBelow(_, _)
\* The keys of the subtree whose root is Node.
KeysBelow(tree, Node) ==
    IF Node = NULLNODE
    THEN {}
    ELSE {tree[Node].Key} \cup KeysBelow(tree, tree[Node].Left)
                          \cup KeysBelow(tree, tree[Node].Right)

\* Where the key k stands in the sequence s (0 when it does not).
Position(s, k) ==
    IF \E i \in 1..Len(s) : s[i] = k
    THEN CHOOSE i \in 1..Len(s) : s[i] = k
    ELSE 0

\* C27: DFS_PostOrder emits every key of the tree once, and for every node
\* of the tree the key of the node comes after all keys of its left subtree
\* and all keys of its right subtree.
C27_PostOrder ==
    tcall.op = "DFS_PostOrder" =>
        /\ Len(emitted) = Len(Nodes)
        /\ \A n \in 1..Len(Nodes) :
               \A k \in KeysBelow(Nodes, Nodes[n].Left)
                          \cup KeysBelow(Nodes, Nodes[n].Right) :
                   /\ Position(emitted, k) > 0
                   /\ Position(emitted, k) < Position(emitted, Nodes[n].Key)

\* C24: every Write and Read makes at most two contiguous copies: the first
\* starts at cursor mod capacity and has length min(count, capacity - cursor
\* mod capacity), the second, if any, starts at offset 0 and has the
\* remainder; the lengths sum to the count returned and every storage offset
\* touched lies in 0 .. capacity - 1.
C24_SplitCopy ==
    (call.op \in {"Write", "Read"} /\ pc # "crashed") =>
        LET Capacity == RingBuffer.Capacity
            cursor   == IF call.op = "Write" THEN RingBuffer.WriteIndex - ret
                                             ELSE RingBuffer.ReadIndex - ret
            Index    == Clamp(cursor, Capacity)
            first    == Min(ret, Capacity - Index)
        IN  /\ fault = "none"
            /\ Len(copies) <= 2
            /\ ret = 0 => copies = << >>
            /\ ret > 0 => copies[1] = [at |-> Index, len |-> first]
            /\ (ret > 0 /\ ret <= first) => Len(copies) = 1
            /\ ret > first =>
                   /\ Len(copies) = 2
                   /\ copies[2] = [at |-> 0, len |-> ret - first]
            /\ Touched(copies) \subseteq 0..(Capacity - 1)
            /\ Touched(copies) \subseteq DOMAIN storage

\* A Read that took its bytes in two copies.
C24_Witness ==
    /\ call.op = "Read"
    /\ pc = "live"
    /\ Len(copies) = 2
    /\ copies[1].at > 0
    /\ copies[2].len > 0

\* The storage offsets of the bytes written and not yet read.
Occupied(rb) ==
    IF rb.Capacity = 0
    THEN {}
    ELSE {SIZE_T(rb.ReadIndex + i) % rb.Capacity :
              i \in 0..(CountRingBuffer(rb) - 1)}

\* C25: Write and WriteByte change neither readCursor, nor the capacity, nor
\* the pointer, nor a storage byte of the occupied region, nor the caller's
\* read array; Read and ReadByte change neither writeCursor, nor the
\* capacity, nor the pointer, nor any storage byte.  (The queries are the
\* operators CountRingBuffer, FreeSpaceRingBuffer, IsEmptyRingBuffer and
\* IsFullRingBuffer: values of the struct, with no effect on it.)
C25_Frame ==
    [][ /\ (call'.op \in Writes /\ pc' # "crashed") =>
               /\ RingBuffer'.ReadIndex = RingBuffer.ReadIndex
               /\ RingBuffer'.Capacity = RingBuffer.Capacity
               /\ RingBuffer'.Buffer = RingBuffer.Buffer
               /\ DOMAIN storage' = DOMAIN storage
               /\ \A o \in Occupied(RingBuffer) : storage'[o] = storage[o]
               /\ Result' = Result
        /\ (call'.op \in Reads /\ pc' # "crashed") =>
               /\ RingBuffer'.WriteIndex = RingBuffer.WriteIndex
               /\ RingBuffer'.Capacity = RingBuffer.Capacity
               /\ RingBuffer'.Buffer = RingBuffer.Buffer
               /\ storage' = storage
      ]_vars

\* A Write has added bytes to a buffer that held unread bytes.
C25_Witness ==
    /\ call.op = "Write"
    /\ pc = "live"
    /\ ret > 0
    /\ CountRingBuffer(RingBuffer) > ret
    /\ RingBuffer.ReadIndex > 0

\* What the caller can tell of two outcomes is the same: the struct, the
\* block, the caller's array, the value returned, the undefined behaviour.
SameOutcome(x, y) ==
    /\ x.rb = y.rb
    /\ x.mem = y.mem
    /\ x.out = y.out
    /\ x.ret = y.ret
    /\ x.fault = y.fault

\* C29: in every reachable state, full, empty and zero-capacity ones
\* included, WriteByte(b) and Write(&b, 1) return the same count and leave
\* the same cursors and storage, and ReadByte(&v) and Read(&v, 1) return the
\* same count and leave the same cursors, storage and output byte.
C29_ByteBulkEquivalent ==
    Usable =>
        /\ \A b \in BYTE :
               SameOutcome(
                   WriteByteRingBuffer(RingBuffer, storage, Result, b),
                   WriteRingBuffer(RingBuffer, storage, Result, << b >>, 1))
        /\ SameOutcome(ReadByteRingBuffer(RingBuffer, storage, Result),
                       ReadRingBuffer(RingBuffer, storage, Result, 1))

\* A mix of byte and bulk calls has filled the buffer; the next ReadByte
\* takes the byte at the last offset of the storage.
C29_Witness ==
    /\ call.op = "WriteByte"
    /\ pc = "live"
    /\ ret = 1
    /\ RingBuffer.Capacity > 1
    /\ IsFullRingBuffer(RingBuffer)
    /\ RingBuffer.ReadIndex % RingBuffer.Capacity = RingBuffer.Capacity - 1
    /\ ReadByteRingBuffer(RingBuffer, storage, Result).ret = 1
    /\ ReadRingBuffer(RingBuffer, storage, Result, 1).ret = 1

\* C30 as stated: given the same capacity and the same Write/Read calls, the
\* byte-by-byte variant and the split-memcpy variant return the same counts,
\* deliver the same bytes and hold the same cursors and the same storage
\* content after every call.
C30_SlowFastEquivalent ==
    (call.op \in {"Write", "Read"} /\ pc = "live") =>
        /\ slowRet = ret
        /\ SlowResult = Result
        /\ SlowRingBuffer.ReadIndex = RingBuffer.ReadIndex
        /\ SlowRingBuffer.WriteIndex = RingBuffer.WriteIndex
        /\ SlowRingBuffer.Capacity = RingBuffer.Capacity
        /\ slowStorage = storage

\* C30, amended: given the same capacity and the same Write/Read calls, the
\* two variants return the same counts, deliver the same bytes, hold the same
\* cursors after every call and the same content at every storage offset
\* written since Create; an offset never written holds 0 in the byte-by-byte
\* variant (calloc) and whatever malloc left there in the other.
C30_SlowFastEquivalentWritten ==
    call.op \in {"Initialize", "Write", "Read"} =>
        /\ fault = "none"
        /\ slowRet = ret
        /\ SlowResult = Result
        /\ SlowRingBuffer.ReadIndex = RingBuffer.ReadIndex
        /\ SlowRingBuffer.WriteIndex = RingBuffer.WriteIndex
        /\ SlowRingBuffer.Capacity = RingBuffer.Capacity
        /\ DOMAIN slowStorage = DOMAIN storage
        /\ \A o \in DOMAIN storage :
               IF o < RingBuffer.WriteIndex
               THEN slowStorage[o] = storage[o]
               ELSE slowStorage[o] = 0

\* A Write that the last variant split in two copies, a byte at a time in the
\* other, into a buffer that holds an unread byte.
C30_Witness ==
    /\ call.op = "Write"
    /\ pc = "live"
    /\ Len(copies) = 2
    /\ slowRet = 2
    /\ ret = 2
    /\ SlowRingBuffer.WriteIndex = RingBuffer.WriteIndex
    /\ slowStorage = storage


\* C26: a walk callback that returns false stops the walk: in the invocations
\* of a DfsWalk or a BfsWalk, an invocation that returned false is the last
\* one, so that no callback is invoked on a further vertex.
C26_CallbackStopsWalk ==
    Walked =>
        \A i \in DOMAIN callbacks :
            ~callbacks[i].ret => i = Len(callbacks)

\* The same for the breadth-first walks alone, whose loop breaks at line 572.
C26_BfsStops ==
    gcall.op \in {"BfsWalk", "ShortestDistance"} =>
        \A i \in DOMAIN callbacks :
            ~callbacks[i].ret => i = Len(callbacks)


RECURSIVE Reach(_, _, _)
\* The vertices at the end of a path of exactly k edges of the adjacency list
\* that begins at From.
Reach(Neighbors, From, k) ==
    IF k = 0
    THEN {From}
    ELSE UNION {IF v \in DOMAIN Neighbors THEN Neighbors[v] ELSE {} :
                v \in Reach(Neighbors, From, k - 1)}

\* To is reachable from From: a path that repeats no vertex has fewer than
\* MaxVertex edges.
Reachable(Neighbors, From, To) ==
    \E k \in 0..MaxVertex : To \in Reach(Neighbors, From, k)

\* The minimum number of edges on a path from From to To.
MinEdges(Neighbors, From, To) ==
    CHOOSE k \in 0..MaxVertex :
        /\ To \in Reach(Neighbors, From, k)
        /\ \A j \in 0..(k - 1) : To \notin Reach(Neighbors, From, j)

\* C28: ShortestDistance(From, To) returns 0 when From = To; when To is another
\* vertex, reachable from From in the adjacency list, it returns the minimum
\* number of edges on a path from From to To, the callback is invoked on To
\* exactly once, in the last invocation of the walk, and that invocation
\* carries the distance returned; the distances of the invocations of a
\* breadth-first walk never decrease.
C28_ShortestDistance ==
    /\ gcall.op = "ShortestDistance" /\ gcall.From = gcall.To =>
           gcall.ret = 0
    /\ ( /\ gcall.op = "ShortestDistance"
         /\ gcall.From # gcall.To
         /\ Reachable(g.Neighbors, gcall.From, gcall.To) ) =>
           /\ gcall.ret = MinEdges(g.Neighbors, gcall.From, gcall.To)
           /\ Cardinality({i \in DOMAIN callbacks :
                               callbacks[i].Name = gcall.To}) = 1
           /\ callbacks # << >>
           /\ callbacks[Len(callbacks)].Name = gcall.To
           /\ callbacks[Len(callbacks)].Distance = gcall.ret
    /\ gcall.op \in {"ShortestDistance", "BfsWalk"} =>
           \A i, j \in DOMAIN callbacks :
               i <= j => callbacks[i].Distance <= callbacks[j].Distance

\* ShortestDistance returned 1 for a vertex that a path of two edges reaches
\* as well.
C28_Witness ==
    /\ gcall.op = "ShortestDistance"
    /\ gcall.From # gcall.To
    /\ gcall.ret = 1
    /\ gcall.To \in Reach(g.Neighbors, gcall.From, 2)
    /\ Len(callbacks) > 2


\* C31: whenever 0 <= (WriteIndex - ReadIndex) mod 2^SizeBits <= Capacity, the
\* FreeSpace of the first variant, (Capacity - WriteIndex + ReadIndex) mod
\* 2^SizeBits, is Capacity - ((WriteIndex - ReadIndex) mod 2^SizeBits), the
\* FreeSpace of the last variant, also when Capacity - WriteIndex wraps; and
\* IsFull as FreeSpace = 0 is IsFull as Count = Capacity.
C31_FreeSpaceFormulasAgree ==
    (pc = "live" /\ CountRingBuffer(RingBuffer) <= RingBuffer.Capacity) =>
        /\ V1_FreeSpaceRingBuffer(RingBuffer)
              = RingBuffer.Capacity - CountRingBuffer(RingBuffer)
        /\ V1_FreeSpaceRingBuffer(RingBuffer) = FreeSpaceRingBuffer(RingBuffer)
        /\ V1_IsFullRingBuffer(RingBuffer) <=> IsFullRingBuffer(RingBuffer)

\* A write has left bytes in a buffer whose WriteIndex is larger than its
\* Capacity, so that Capacity - WriteIndex wraps.
C31_Witness ==
    /\ pc = "live"
    /\ call.op \in Writes
    /\ RingBuffer.WriteIndex > RingBuffer.Capacity
    /\ 0 < CountRingBuffer(RingBuffer)
    /\ CountRingBuffer(RingBuffer) <= RingBuffer.Capacity

\* The same buffer after WriteIndex has passed 2^SizeBits - 1: ReadIndex is
\* the larger cursor and Capacity - WriteIndex + ReadIndex wraps at the sum.
C31_WitnessWrapped ==
    /\ pc = "live"
    /\ RingBuffer.WriteIndex < RingBuffer.ReadIndex
    /\ CountRingBuffer(RingBuffer) = RingBuffer.Capacity


\* The bytes accepted and not yet delivered, as the reader finds them in the
\* block from ReadIndex on.
Unread == SubSeq(accepted, Len(delivered) + 1, Len(accepted))

\* The n bytes that n calls of ReadByteRingBuffer would take from the block.
Buffered(rb, mem, n) ==
    [i \in 1..n |-> mem[SIZE_T(rb.ReadIndex + i - 1) % rb.Capacity]]


\* C32: FIFO fidelity survives the overflow of a cursor, for every capacity
\* and not only the powers of two: the bytes delivered are the first of the
\* bytes accepted, in order, and the bytes not yet delivered are still in the
\* block where the reader will take them, none overwritten.
C32_FifoAcrossOverflow ==
    pc = "live" =>
        /\ IsPrefix(delivered, accepted)
        /\ CountRingBuffer(RingBuffer) = Len(accepted) - Len(delivered)
        /\ Buffered(RingBuffer, storage, Len(Unread)) = Unread

\* The same for the capacities that divide 2^SizeBits alone.
C32_FifoWhenCapacityDivides ==
    (pc = "live" /\ SIZE_MODULUS % RingBuffer.Capacity = 0) =>
        /\ IsPrefix(delivered, accepted)
        /\ CountRingBuffer(RingBuffer) = Len(accepted) - Len(delivered)
        /\ Buffered(RingBuffer, storage, Len(Unread)) = Unread


\* The offsets of the block that the call a thread is in copies to or from.
WriterOffsets ==
    IF writer.pc = "idle"
    THEN {}
    ELSE {(writer.Index + k) % RingBuffer.Capacity :
              k \in 0..(writer.ToWrite - 1)}

ReaderOffsets ==
    IF reader.pc = "idle"
    THEN {}
    ELSE {(reader.Index + k) % RingBuffer.Capacity :
              k \in 0..(reader.ToRead - 1)}

\* C33: with one thread in WriteRingBuffer and one in ReadRingBuffer, their
\* statements interleaved in any order on sequentially consistent memory:
\* the bytes the reader copies out have all been stored and counted in
\* WriteIndex, the offsets the writer stores into have all been copied out and
\* counted in ReadIndex, so that the two calls never touch the same offset;
\* 0 <= WriteIndex - ReadIndex <= Capacity in every intermediate state; and
\* the bytes read are the first of the bytes written, in order.
C33_SingleProducerSingleConsumer ==
    /\ reader.pc # "idle" => reader.ToRead <= CountRingBuffer(RingBuffer)
    /\ writer.pc # "idle" => writer.ToWrite <= FreeSpaceRingBuffer(RingBuffer)
    /\ WriterOffsets \cap ReaderOffsets = {}
    /\ 0 <= RingBuffer.WriteIndex - RingBuffer.ReadIndex
    /\ RingBuffer.WriteIndex - RingBuffer.ReadIndex <= RingBuffer.Capacity
    /\ IsPrefix(delivered, accepted)

\* Both threads are about to copy at once, in a buffer that bytes have
\* already gone through: the writer has wrapped and stores below the offset
\* the reader copies from.
C33_Witness ==
    /\ writer.pc = "copy1"
    /\ reader.pc = "copy1"
    /\ Len(delivered) > 0
    /\ writer.Index < reader.Index


\* C34: in a buffer of capacity >= 1, a write of Size >= 1 into a buffer that
\* is not full accepts at least one byte and a read of Size >= 1 from a buffer
\* that is not empty returns at least one byte; so, with a producer that
\* offers what is left of its data again and a consumer that keeps reading,
\* both weakly fair, all the bytes offered are eventually read, in order.
C34_Progress ==
    /\ [][ /\ ( /\ RingBuffer.Capacity >= 1
                /\ call'.op = "Write" /\ call'.Size >= 1
                /\ ~IsFullRingBuffer(RingBuffer) )
              => ret' >= 1 /\ Len(accepted') > Len(accepted)
           /\ ( /\ RingBuffer.Capacity >= 1
                /\ call'.op = "Read" /\ call'.Size >= 1
                /\ ~IsEmptyRingBuffer(RingBuffer) )
              => ret' >= 1 /\ Len(delivered') > Len(delivered) ]_vars
    /\ <>(pending = << >> /\ delivered = offered)

\* All of a producer's data has come out, more bytes than the buffer holds:
\* a write was cut short and the rest offered again.
C34_Witness ==
    /\ pending = << >>
    /\ delivered = offered
    /\ Len(offered) > RingBuffer.Capacity
    /\ call.op = "Read"
    /\ \E i, j \in DOMAIN delivered : delivered[i] # delivered[j]

=============================================================================
